---- MODULE Spec2Model ----
(***************************************************************************)
(* AXS15260 MIPI-DSI panel driver (esp_lcd_axs15260.c): the panel context, *)
(* its constructor with the one-time init command sequence and the switch  *)
(* to the DPI (video streaming) panel, and the panel operations.           *)
(*                                                                         *)
(* Every handler runs to completion on the calling task, so each handler   *)
(* is one action.  The calls a handler makes on its collaborators (the     *)
(* DBI command transport, GPIO, the DPI panel, the heap, vTaskDelay) are   *)
(* recorded, in program order, in ev; pre is the state the handler was     *)
(* entered in and op the call that was made.                               *)
(***************************************************************************)
EXTENDS Integers, Sequences, FiniteSets, TLC

VARIABLES
    phase,       \* "none" before the constructor, "live", "failed", "deleted"
    panel,       \* the axs15260_panel_t the caller's handle points to
    ret_panel,   \* the caller's esp_lcd_panel_handle_t variable (*ret_panel)
    op,          \* the last call: [name, args]
    pre,         \* phase, panel and ret_panel when the last call was entered
    ev,          \* calls the last handler made on its collaborators, in order
    ret,         \* value the last handler returned
    reset_done,  \* panel_axs15260_reset has returned at least once
    tdev,        \* the struct axs15260_touch_dev behind the touch handle
    tpc,         \* per task: where it stands inside a touch driver call
    tloc,        \* per task: the call's arguments, locals and out-parameters
    xfer,        \* tasks with an I2C transaction of the touch driver in progress
    wire,        \* what the touch controller puts on its I2C and INT outputs
    isr          \* the GPIO interrupt of the touch INT line and touch_isr

pvars == <<phase, panel, ret_panel, op, pre, ev, ret, reset_done>>

tvars == <<tdev, tpc, tloc, xfer, wire, isr>>

vars == <<phase, panel, ret_panel, op, pre, ev, ret, reset_done,
          tdev, tpc, tloc, xfer, wire, isr>>

-----------------------------------------------------------------------------
(* Bounds and input domains *)

\* longest caller-supplied init command table
MaxLen == 2

NULL == "NULL"
NullPtr == [null |-> TRUE]
NoPanel == [null |-> TRUE]

IoHandles == {"mipi_io"}
DpiHandles == {"dpi_a", "dpi_b"}
ResetGpios == {-1, 5}
DpiErrors == {"ESP_ERR_NO_MEM", "ESP_ERR_INVALID_ARG"}
TxResults == {"ESP_OK", "ESP_FAIL"}
DrvResults == {"ESP_OK", "ESP_ERR_INVALID_ARG"}
DrawArgs == {<<0, 0, 452, 1280, "fb0">>, <<10, 20, 30, 40, "fb1">>}
GapArgs == {<<0, 0>>, <<4, 8>>}

-----------------------------------------------------------------------------
(* esp_lcd_panel_commands.h command bytes used by the driver *)

LCD_CMD_SWRESET == 1
LCD_CMD_SLPIN == 16
LCD_CMD_SLPOUT == 17
LCD_CMD_INVOFF == 32
LCD_CMD_INVON == 33
LCD_CMD_DISPOFF == 40
LCD_CMD_DISPON == 41
LCD_CMD_COLMOD == 58

-----------------------------------------------------------------------------
(* Default init command parameter tables (decimal; hex in the source) *)

cmd_bb_unlock ==
    << 0, 0, 0, 0, 0, 0, 90, 165 >>

cmd_f8 ==
    << 33, 160 >>

cmd_a0 ==
    << 0, 16, 44, 2, 0, 0, 9, 255, 0, 5, 58, 58, 0, 0, 0, 0, 0, 0, 0, 0, 0, 0,
       0, 0, 0, 0, 0, 0, 14 >>

cmd_a1 ==
    << 143, 229, 17, 170, 85, 0, 2, 0, 0, 0, 1, 38, 38, 50, 146, 147, 19, 146,
       144, 144, 144, 132 >>

cmd_a2 ==
    << 0, 50, 10, 10, 90, 250, 90, 0, 0, 0, 0, 0, 255, 128, 67, 136, 136, 255,
       255, 32, 144, 0, 32, 144, 0, 224, 1, 127, 255, 0, 0, 0, 0, 0, 231, 255,
       255, 0 >>

cmd_a4 ==
    << 133, 133, 146, 130, 175, 173, 173, 128, 16, 48, 64, 64, 32, 80, 96, 83 >>

cmd_b8 ==
    << 3, 8, 8, 32, 0, 2, 80, 94, 31, 143, 64, 0, 3, 0, 131, 144, 144, 144,
       144, 144, 144, 144, 144, 144, 144, 144, 144, 144 >>

cmd_b9 ==
    << 100, 52, 120, 50, 170, 85, 170, 0, 0, 0, 240, 0, 19, 200, 0, 16, 39,
       200, 0, 100, 16, 255, 20, 7, 30, 10, 0, 0, 0, 0 >>

cmd_ba ==
    << 64, 128, 14, 16, 14, 23, 144, 19, 3, 255, 4, 34, 0, 0, 0, 0, 0, 0, 0, 0,
       0, 48 >>

cmd_c1 ==
    << 114, 4, 2, 2, 113, 5, 24, 0, 2, 0, 1, 1, 67, 255, 255, 127, 79, 82, 0,
       79, 82, 0, 84, 59, 11, 4, 6, 255, 255, 0 >>

cmd_c3 ==
    << 0, 192 >>

cmd_c4 ==
    << 2, 2, 192, 131, 0, 99, 0, 12, 3, 12, 1, 1, 3, 16, 62, 6, 157, 5, 3, 128,
       254, 16, 16, 0, 10, 10, 72, 72, 132, 205 >>

cmd_c5 ==
    << 25, 25, 0, 72, 80, 72, 160, 85, 48, 16, 136, 25, 25, 25, 25, 25, 25,
       107, 3, 16, 16, 16, 0 >>

cmd_c6 ==
    << 5, 10, 5, 10, 192, 224, 46, 3, 18, 34, 18, 34, 1, 0, 0, 2, 200, 34, 250,
       232, 48, 100, 0, 8, 0, 9, 240, 0, 0, 240, 1 >>

cmd_c7 ==
    << 80, 16, 40, 0, 162, 0, 79, 0, 0, 255, 168, 153, 156, 96, 7, 4, 12, 13,
       14, 15, 1, 1, 1, 1, 48, 16, 25, 255, 255, 255, 255, 3, 0, 0, 0, 0, 0, 0,
       0, 0, 0 >>

cmd_cf ==
    << 60, 30, 136, 80, 255, 24, 22, 24, 22, 10, 140, 60, 107, 12, 110, 136,
       12, 15, 34, 136, 170, 85, 4, 4, 145, 160, 48, 36, 187, 1, 0 >>

cmd_d0 ==
    << 0, 0, 1, 36, 8, 5, 48, 1, 255, 17, 195, 194, 34, 34, 0, 3, 16, 18, 64,
       16, 30, 81, 21, 0, 32, 32, 0, 3, 13, 38, 162, 40, 40, 40, 40, 40, 40, 0,
       63, 255, 13, 2, 19, 18 >>

cmd_d5 ==
    << 55, 60, 147, 0, 76, 8, 108, 116, 0, 103, 133, 10, 8, 1, 0, 75, 55, 60,
       55, 21, 133, 1, 3, 0, 0, 85, 123, 55, 60, 0, 55, 60, 4, 0, 33, 90, 31,
       48, 48 >>

cmd_d6 ==
    << 16, 50, 84, 118, 152, 186, 220, 254, 109, 0, 1, 131, 134, 102, 160, 134,
       102, 160, 23, 60, 27, 60, 55, 60, 0, 136, 8, 40, 1, 0, 0, 0, 0, 0, 0, 0,
       0, 18, 0, 0, 0, 0, 32 >>

cmd_d7 ==
    << 27, 28, 1, 23, 21, 19, 17, 15, 13, 11, 9, 25, 26, 31, 31, 31, 31 >>

cmd_d8 ==
    << 27, 24, 0, 22, 20, 18, 16, 14, 12, 10, 8, 25, 26, 31, 31, 31, 31 >>

cmd_df ==
    << 0, 0, 91, 171, 187, 43, 40 >>

cmd_e0 ==
    << 0, 1, 3, 7, 9, 10, 13, 12, 23, 42, 59, 61, 75, 97, 108, 120, 144, 160,
       161, 183, 192, 96, 95, 99, 104, 108, 110, 117, 127, 51, 53, 3 >>

cmd_e1 ==
    << 0, 1, 3, 7, 9, 10, 13, 12, 23, 42, 59, 61, 75, 97, 108, 120, 144, 160,
       161, 183, 192, 96, 95, 99, 104, 108, 110, 117, 127, 51, 53, 216, 51 >>

cmd_e7 ==
    << 0, 5, 196, 1, 0, 5, 196, 1, 0, 16, 0, 8, 224, 7 >>

cmd_e8 ==
    << 233, 5, 0, 0, 0, 0, 1, 1, 2, 48, 13, 0, 207, 32, 0, 255, 64, 0, 0, 0, 0,
       0 >>

cmd_e9 ==
    << 0, 43, 2, 0, 2, 3, 0, 178, 16, 14, 96, 20, 5, 129, 1, 6, 5, 0, 128, 7,
       8, 7 >>

cmd_bb_lock ==
    << 0, 0, 0, 0, 0, 0, 0, 0 >>
-----------------------------------------------------------------------------
(* Calls on collaborators, as recorded in ev *)

Tx(io, cmd, data, len, res) ==
    [k |-> "tx", io |-> io, cmd |-> cmd, data |-> data, len |-> len, res |-> res]
Delay(ms) == [k |-> "delay", ms |-> ms]
GpioSet(num, level) == [k |-> "gpio_set_level", gpio |-> num, level |-> level]
GpioResetPin(num) == [k |-> "gpio_reset_pin", gpio |-> num]
Calloc(ok) == [k |-> "calloc", ok |-> ok]
Free == [k |-> "free"]
DpiNew(bus, cfg, res, h) ==
    [k |-> "dpi_new", dsi_bus |-> bus, dpi_config |-> cfg, res |-> res, handle |-> h]
DpiInit(h, res) == [k |-> "dpi_init", handle |-> h, res |-> res]
DpiDraw(h, a, res) == [k |-> "dpi_draw", handle |-> h, args |-> a, res |-> res]
DpiSetGap(h, a, res) == [k |-> "dpi_set_gap", handle |-> h, args |-> a, res |-> res]
DpiDel(h) == [k |-> "dpi_del", handle |-> h]

\* result of the i-th transmission of a handler, given the set of failing ones
TxRes(i, fails) == IF i \in fails THEN "ESP_FAIL" ELSE "ESP_OK"

-----------------------------------------------------------------------------
(* Caller-supplied init command tables (axs15260_lcd_init_cmd_t[]) *)

InitCmdEntries ==
    { [cmd |-> 248, data |-> <<33, 160>>, data_bytes |-> 2, delay_ms |-> 0],
      [cmd |-> 17, data |-> <<>>, data_bytes |-> 0, delay_ms |-> 120] }

\* a NULL init_cmds pointer is the empty table
NullTable == <<>>
InitCmdTables == UNION { [1..n -> InitCmdEntries] : n \in 1..MaxLen }

\* a table comes with its length or with 0, a NULL pointer with 0 or 1
VendorSizes(t) == IF t = NullTable THEN {0, 1} ELSE {0, Len(t)}

VendorConfigs ==
    { NullPtr } \cup
    { [null |-> FALSE, init_cmds |-> ts[1], init_cmds_size |-> ts[2],
       use_mipi_interface |-> m, mirror_by_cmd |-> 0,
       dsi_bus |-> b, dpi_config |-> d] :
         ts \in UNION { {<<t, n>> : n \in VendorSizes(t)} :
                          t \in InitCmdTables \cup {NullTable} },
         m \in {0, 1}, b \in {NULL, "dsi_bus"}, d \in {NULL, "dpi_cfg"} }

DevConfigs ==
    { NullPtr } \cup
    { [null |-> FALSE, reset_gpio_num |-> g, reset_active_high |-> a,
       bits_per_pixel |-> bpp, rgb_ele_order |-> o, vendor_config |-> v] :
         g \in ResetGpios, a \in {0, 1}, bpp \in {16, 18, 24},
         o \in {"RGB", "BGR"}, v \in VendorConfigs }

-----------------------------------------------------------------------------
(* axs15260_send_init_cmds: the built-in sequence *)

DefaultCmds(colmod_val) ==
    << [cmd |-> 187, data |-> cmd_bb_unlock, delay_ms |-> 1],
       [cmd |-> 248, data |-> cmd_f8, delay_ms |-> 1],
       [cmd |-> 160, data |-> cmd_a0, delay_ms |-> 1],
       [cmd |-> 161, data |-> cmd_a1, delay_ms |-> 1],
       [cmd |-> 162, data |-> cmd_a2, delay_ms |-> 1],
       [cmd |-> 164, data |-> cmd_a4, delay_ms |-> 1],
       [cmd |-> 184, data |-> cmd_b8, delay_ms |-> 1],
       [cmd |-> 185, data |-> cmd_b9, delay_ms |-> 1],
       [cmd |-> 186, data |-> cmd_ba, delay_ms |-> 1],
       [cmd |-> 193, data |-> cmd_c1, delay_ms |-> 1],
       [cmd |-> 195, data |-> cmd_c3, delay_ms |-> 1],
       [cmd |-> 196, data |-> cmd_c4, delay_ms |-> 1],
       [cmd |-> 197, data |-> cmd_c5, delay_ms |-> 1],
       [cmd |-> 198, data |-> cmd_c6, delay_ms |-> 1],
       [cmd |-> 199, data |-> cmd_c7, delay_ms |-> 1],
       [cmd |-> 207, data |-> cmd_cf, delay_ms |-> 1],
       [cmd |-> 208, data |-> cmd_d0, delay_ms |-> 1],
       [cmd |-> 213, data |-> cmd_d5, delay_ms |-> 1],
       [cmd |-> 214, data |-> cmd_d6, delay_ms |-> 1],
       [cmd |-> 215, data |-> cmd_d7, delay_ms |-> 1],
       [cmd |-> 216, data |-> cmd_d8, delay_ms |-> 1],
       [cmd |-> 223, data |-> cmd_df, delay_ms |-> 1],
       [cmd |-> 224, data |-> cmd_e0, delay_ms |-> 1],
       [cmd |-> 225, data |-> cmd_e1, delay_ms |-> 1],
       [cmd |-> 231, data |-> cmd_e7, delay_ms |-> 1],
       [cmd |-> 232, data |-> cmd_e8, delay_ms |-> 1],
       [cmd |-> 233, data |-> cmd_e9, delay_ms |-> 1],
       [cmd |-> 187, data |-> cmd_bb_lock, delay_ms |-> 50],
       [cmd |-> LCD_CMD_COLMOD, data |-> <<colmod_val>>, delay_ms |-> 10],
       [cmd |-> LCD_CMD_SLPOUT, data |-> <<>>, delay_ms |-> 120],
       [cmd |-> LCD_CMD_DISPON, data |-> <<>>, delay_ms |-> 50] >>

\* variant: the built-in sequence stops at the first failed transmission
RECURSIVE SendFrom_StopsOnError(_, _, _, _)
SendFrom_StopsOnError(io, cmds, i, fails) ==
    IF i > Len(cmds) THEN <<>>
    ELSE << Tx(io, cmds[i].cmd, cmds[i].data, Len(cmds[i].data), TxRes(i, fails)),
            Delay(cmds[i].delay_ms) >>
         \o (IF i \in fails THEN <<>>
             ELSE SendFrom_StopsOnError(io, cmds, i + 1, fails))

\* each command is transmitted with sizeof(its table) and followed by vTaskDelay;
\* the transmission's result is dropped
RECURSIVE SendFrom(_, _, _, _)
SendFrom(io, cmds, i, fails) ==
    IF i > Len(cmds) THEN <<>>
    ELSE << Tx(io, cmds[i].cmd, cmds[i].data, Len(cmds[i].data), TxRes(i, fails)),
            Delay(cmds[i].delay_ms) >>
         \o SendFrom(io, cmds, i + 1, fails)

\* variant: the lock command is left out of the built-in sequence
axs15260_send_init_cmds_NoLock(io, colmod_val, fails) ==
    LET d == DefaultCmds(colmod_val)
    IN  [ev |-> SendFrom(io, SubSeq(d, 1, 27) \o SubSeq(d, 29, Len(d)), 1, fails),
         ret |-> "ESP_OK"]

axs15260_send_init_cmds(io, colmod_val, fails) ==
    [ev |-> SendFrom(io, DefaultCmds(colmod_val), 1, fails), ret |-> "ESP_OK"]

\* variant: the custom-table loop transmits every entry without holding
RECURSIVE SendCustomFrom_NoHold(_, _, _, _, _)
SendCustomFrom_NoHold(io, cmds, size, i, fails) ==
    IF i > size THEN <<>>
    ELSE << Tx(io, cmds[i].cmd, cmds[i].data, cmds[i].data_bytes, TxRes(i, fails)) >>
         \o SendCustomFrom_NoHold(io, cmds, size, i + 1, fails)

\* the custom-table loop of esp_lcd_new_panel_axs15260: entries 0 .. size-1,
\* each transmitted with its data_bytes and followed by its delay when > 0
RECURSIVE SendCustomFrom(_, _, _, _, _)
SendCustomFrom(io, cmds, size, i, fails) ==
    IF i > size THEN <<>>
    ELSE << Tx(io, cmds[i].cmd, cmds[i].data, cmds[i].data_bytes, TxRes(i, fails)) >>
         \o (IF cmds[i].delay_ms > 0 THEN << Delay(cmds[i].delay_ms) >> ELSE <<>>)
         \o SendCustomFrom(io, cmds, size, i + 1, fails)

SendCustomCmds(io, cmds, size, fails) == SendCustomFrom(io, cmds, size, 1, fails)

-----------------------------------------------------------------------------
(* esp_lcd_new_panel_axs15260 *)

\* bits_per_pixel -> COLMOD parameter
ColmodOf(bpp) == CASE bpp = 16 -> 85 [] bpp = 18 -> 102 [] OTHER -> 119

\* madctl_val starts 0; RGB clears bit 3, BGR sets it
MadctlOf(order) == IF order = "BGR" THEN 8 ELSE 0

\* the context as filled in before the MIPI branch (calloc zeroes dpi_panel)
InitCtx(io, cfg) ==
    LET v == cfg.vendor_config
        custom == (~v.null) /\ v.init_cmds # NullTable /\ v.init_cmds_size > 0
    IN  [io |-> io,
         dpi_panel |-> NULL,
         reset_gpio_num |-> cfg.reset_gpio_num,
         madctl_val |-> MadctlOf(cfg.rgb_ele_order),
         colmod_val |-> ColmodOf(cfg.bits_per_pixel),
         init_cmds |-> IF custom THEN v.init_cmds ELSE NullTable,
         init_cmds_size |-> IF custom THEN v.init_cmds_size ELSE 0,
         reset_level |-> cfg.reset_active_high,
         mirror_by_cmd |-> IF v.null THEN 0 ELSE v.mirror_by_cmd]

\* the init commands sent before the DPI panel is created: the caller's table
\* when there is one, else the built-in sequence
SendInitSequence(io, c, fails) ==
    IF c.init_cmds # NullTable /\ c.init_cmds_size > 0
    THEN [ev |-> SendCustomCmds(io, c.init_cmds, c.init_cmds_size, fails),
          ret |-> "ESP_OK"]
    ELSE axs15260_send_init_cmds(io, c.colmod_val, fails)

\* variant: the DPI panel is created first and the init commands sent after it
CommitToStreaming_DpiFirst(io, c, v, env) ==
    IF v.dsi_bus = NULL \/ v.dpi_config = NULL
    THEN [ret |-> "ESP_ERR_INVALID_ARG", ev |-> <<>>, panel |-> c]
    ELSE LET s == SendInitSequence(io, c, env.fails)
         IN  IF env.dpi_res # "ESP_OK"
             THEN [ret |-> env.dpi_res,
                   ev |-> << DpiNew(v.dsi_bus, v.dpi_config, env.dpi_res, NULL) >>,
                   panel |-> c]
             ELSE [ret |-> "ESP_OK",
                   ev |-> << DpiNew(v.dsi_bus, v.dpi_config, "ESP_OK",
                                    env.dpi_handle) >> \o s.ev,
                   panel |-> [c EXCEPT !.dpi_panel = env.dpi_handle]]

\* variant: a failed esp_lcd_new_panel_dpi is tried a second time
CommitToStreaming_Retry(io, c, v, env) ==
    IF v.dsi_bus = NULL \/ v.dpi_config = NULL
    THEN [ret |-> "ESP_ERR_INVALID_ARG", ev |-> <<>>, panel |-> c]
    ELSE LET s == SendInitSequence(io, c, env.fails)
         IN  IF env.dpi_res # "ESP_OK"
             THEN [ret |-> env.dpi_res,
                   ev |-> s.ev \o << DpiNew(v.dsi_bus, v.dpi_config, env.dpi_res, NULL),
                                     DpiNew(v.dsi_bus, v.dpi_config, env.dpi_res, NULL) >>,
                   panel |-> c]
             ELSE [ret |-> "ESP_OK",
                   ev |-> s.ev \o << DpiNew(v.dsi_bus, v.dpi_config, "ESP_OK",
                                            env.dpi_handle) >>,
                   panel |-> [c EXCEPT !.dpi_panel = env.dpi_handle]]

\* variant: the bus handle and the DPI configuration are looked at only after
\* the init commands have been sent
CommitToStreaming_LateCheck(io, c, v, env) ==
    LET s == SendInitSequence(io, c, env.fails)
    IN  IF v.dsi_bus = NULL \/ v.dpi_config = NULL
        THEN [ret |-> "ESP_ERR_INVALID_ARG", ev |-> s.ev, panel |-> c]
        ELSE IF env.dpi_res # "ESP_OK"
        THEN [ret |-> env.dpi_res,
              ev |-> s.ev \o << DpiNew(v.dsi_bus, v.dpi_config, env.dpi_res, NULL) >>,
              panel |-> c]
        ELSE [ret |-> "ESP_OK",
              ev |-> s.ev \o << DpiNew(v.dsi_bus, v.dpi_config, "ESP_OK",
                                       env.dpi_handle) >>,
              panel |-> [c EXCEPT !.dpi_panel = env.dpi_handle]]

\* the MIPI branch: argument checks, init commands, then esp_lcd_new_panel_dpi.
\* env.dpi_res / env.dpi_handle are what esp_lcd_new_panel_dpi returns.
CommitToStreaming(io, c, v, env) ==
    IF v.dsi_bus = NULL \/ v.dpi_config = NULL
    THEN [ret |-> "ESP_ERR_INVALID_ARG", ev |-> <<>>, panel |-> c]
    ELSE LET s == SendInitSequence(io, c, env.fails)
         IN  IF s.ret # "ESP_OK"
             THEN [ret |-> s.ret, ev |-> s.ev, panel |-> c]
             ELSE IF env.dpi_res # "ESP_OK"
             THEN [ret |-> env.dpi_res,
                   ev |-> s.ev \o << DpiNew(v.dsi_bus, v.dpi_config, env.dpi_res, NULL) >>,
                   panel |-> c]
             ELSE [ret |-> "ESP_OK",
                   ev |-> s.ev \o << DpiNew(v.dsi_bus, v.dpi_config, "ESP_OK",
                                            env.dpi_handle) >>,
                   panel |-> [c EXCEPT !.dpi_panel = env.dpi_handle]]

\* variant: every vendor configuration is taken to request the MIPI interface
esp_lcd_new_panel_axs15260_AlwaysMipi(io, cfg, ret_ptr, env) ==
    IF io = NULL \/ cfg.null \/ ret_ptr = NULL
    THEN [ret |-> "ESP_ERR_INVALID_ARG", ev |-> <<>>,
          panel |-> NoPanel, out |-> "unwritten"]
    ELSE IF ~env.calloc_ok
    THEN [ret |-> "ESP_ERR_NO_MEM", ev |-> << Calloc(FALSE) >>,
          panel |-> NoPanel, out |-> "unwritten"]
    ELSE LET c == InitCtx(io, cfg)
             v == cfg.vendor_config
         IN  IF ~v.null
             THEN LET m == CommitToStreaming(io, c, v, env)
                  IN  IF m.ret # "ESP_OK"
                      THEN [ret |-> m.ret, ev |-> << Calloc(TRUE) >> \o m.ev,
                            panel |-> NoPanel, out |-> "unwritten"]
                      ELSE [ret |-> "ESP_OK", ev |-> << Calloc(TRUE) >> \o m.ev,
                            panel |-> m.panel, out |-> "base"]
             ELSE [ret |-> "ESP_OK", ev |-> << Calloc(TRUE) >>,
                   panel |-> c, out |-> "base"]

\* result: ret, ev, the context the returned handle points to, and out: the
\* value stored through ret_panel ("unwritten" when nothing is stored)
esp_lcd_new_panel_axs15260(io, cfg, ret_ptr, env) ==
    IF io = NULL \/ cfg.null \/ ret_ptr = NULL
    THEN [ret |-> "ESP_ERR_INVALID_ARG", ev |-> <<>>,
          panel |-> NoPanel, out |-> "unwritten"]
    ELSE IF ~env.calloc_ok
    THEN [ret |-> "ESP_ERR_NO_MEM", ev |-> << Calloc(FALSE) >>,
          panel |-> NoPanel, out |-> "unwritten"]
    ELSE LET c == InitCtx(io, cfg)
             v == cfg.vendor_config
         IN  IF (~v.null) /\ v.use_mipi_interface = 1
             THEN LET m == CommitToStreaming(io, c, v, env)
                  IN  IF m.ret # "ESP_OK"
                      THEN [ret |-> m.ret, ev |-> << Calloc(TRUE) >> \o m.ev,
                            panel |-> NoPanel, out |-> "unwritten"]
                      ELSE [ret |-> "ESP_OK", ev |-> << Calloc(TRUE) >> \o m.ev,
                            panel |-> m.panel, out |-> "base"]
             ELSE [ret |-> "ESP_OK", ev |-> << Calloc(TRUE) >>,
                   panel |-> c, out |-> "base"]

\* the caller's own handle handed back in place of the stored DPI handle
esp_lcd_axs15260_get_dpi_panel_Base(h, p) ==
    IF h = NULL THEN NULL ELSE h

esp_lcd_axs15260_get_dpi_panel(h, p) ==
    IF h = NULL THEN NULL ELSE p.dpi_panel

-----------------------------------------------------------------------------
(* Panel operations; p is the context, r the result of the one call the     *)
(* handler makes on the transport or on the DPI panel                       *)

\* ESP_RETURN_ON_ERROR(x, ...) followed by return ESP_OK
ReturnOnError(r) == IF r # "ESP_OK" THEN r ELSE "ESP_OK"

\* variant: the reset line is released before the DPI panel is deleted
panel_axs15260_del_GpioFirst(p) ==
    [ret |-> "ESP_OK",
     ev |-> (IF p.reset_gpio_num >= 0
             THEN << GpioResetPin(p.reset_gpio_num) >> ELSE <<>>)
            \o (IF p.dpi_panel # NULL THEN << DpiDel(p.dpi_panel) >> ELSE <<>>)
            \o << Free >>,
     panel |-> NoPanel]

panel_axs15260_del(p) ==
    [ret |-> "ESP_OK",
     ev |-> (IF p.dpi_panel # NULL THEN << DpiDel(p.dpi_panel) >> ELSE <<>>)
            \o (IF p.reset_gpio_num >= 0
                THEN << GpioResetPin(p.reset_gpio_num) >> ELSE <<>>)
            \o << Free >>,
     panel |-> NoPanel]

\* variant: reset also drops the DPI panel handle
panel_axs15260_reset_DropsDpi(p, r) ==
    [ret |-> "ESP_OK",
     ev |-> IF p.reset_gpio_num >= 0
            THEN << GpioSet(p.reset_gpio_num, p.reset_level), Delay(10),
                    GpioSet(p.reset_gpio_num, 1 - p.reset_level), Delay(10),
                    GpioSet(p.reset_gpio_num, p.reset_level), Delay(170) >>
            ELSE << Tx(p.io, LCD_CMD_SWRESET, <<>>, 0, r), Delay(170) >>,
     panel |-> [p EXCEPT !.dpi_panel = NULL]]

\* variant: reset hands back the result of the software-reset transmission
panel_axs15260_reset_Propagates(p, r) ==
    [ret |-> IF p.reset_gpio_num >= 0 THEN "ESP_OK" ELSE r,
     ev |-> IF p.reset_gpio_num >= 0
            THEN << GpioSet(p.reset_gpio_num, p.reset_level), Delay(10),
                    GpioSet(p.reset_gpio_num, 1 - p.reset_level), Delay(10),
                    GpioSet(p.reset_gpio_num, p.reset_level), Delay(170) >>
            ELSE << Tx(p.io, LCD_CMD_SWRESET, <<>>, 0, r), Delay(170) >>,
     panel |-> p]

panel_axs15260_reset(p, r) ==
    [ret |-> "ESP_OK",
     ev |-> IF p.reset_gpio_num >= 0
            THEN << GpioSet(p.reset_gpio_num, p.reset_level), Delay(10),
                    GpioSet(p.reset_gpio_num, 1 - p.reset_level), Delay(10),
                    GpioSet(p.reset_gpio_num, p.reset_level), Delay(170) >>
            ELSE << Tx(p.io, LCD_CMD_SWRESET, <<>>, 0, r), Delay(170) >>,
     panel |-> p]

panel_axs15260_init(p, r) ==
    IF p.dpi_panel # NULL
    THEN [ret |-> ReturnOnError(r), ev |-> << DpiInit(p.dpi_panel, r) >>, panel |-> p]
    ELSE [ret |-> "ESP_OK", ev |-> <<>>, panel |-> p]

\* variant: the DPI panel's result is dropped
panel_axs15260_draw_bitmap_DropsResult(p, a, r) ==
    IF p.dpi_panel # NULL
    THEN [ret |-> "ESP_OK", ev |-> << DpiDraw(p.dpi_panel, a, r) >>, panel |-> p]
    ELSE [ret |-> "ESP_OK", ev |-> <<>>, panel |-> p]

panel_axs15260_draw_bitmap(p, a, r) ==
    IF p.dpi_panel # NULL
    THEN [ret |-> r, ev |-> << DpiDraw(p.dpi_panel, a, r) >>, panel |-> p]
    ELSE [ret |-> "ESP_OK", ev |-> <<>>, panel |-> p]

\* variant: the two inversion commands are exchanged
panel_axs15260_invert_color_Exchanged(p, invert_color_data, r) ==
    LET cmd == IF invert_color_data THEN LCD_CMD_INVOFF ELSE LCD_CMD_INVON
    IN  [ret |-> ReturnOnError(r), ev |-> << Tx(p.io, cmd, <<>>, 0, r) >>, panel |-> p]

panel_axs15260_invert_color(p, invert_color_data, r) ==
    LET cmd == IF invert_color_data THEN LCD_CMD_INVON ELSE LCD_CMD_INVOFF
    IN  [ret |-> ReturnOnError(r), ev |-> << Tx(p.io, cmd, <<>>, 0, r) >>, panel |-> p]

\* variant: a requested mirror is refused
panel_axs15260_mirror_Refuses(p, mirror_x, mirror_y) ==
    [ret |-> IF mirror_x \/ mirror_y THEN "ESP_ERR_NOT_SUPPORTED" ELSE "ESP_OK",
     ev |-> <<>>, panel |-> p]

panel_axs15260_mirror(p, mirror_x, mirror_y) ==
    [ret |-> "ESP_OK", ev |-> <<>>, panel |-> p]

panel_axs15260_swap_xy(p, swap_axes) ==
    [ret |-> "ESP_OK", ev |-> <<>>, panel |-> p]

\* variant: set_gap without a DPI panel succeeds silently
panel_axs15260_set_gap_Silent(p, a, r) ==
    IF p.dpi_panel # NULL
    THEN [ret |-> r, ev |-> << DpiSetGap(p.dpi_panel, a, r) >>, panel |-> p]
    ELSE [ret |-> "ESP_OK", ev |-> <<>>, panel |-> p]

panel_axs15260_set_gap(p, a, r) ==
    IF p.dpi_panel # NULL
    THEN [ret |-> r, ev |-> << DpiSetGap(p.dpi_panel, a, r) >>, panel |-> p]
    ELSE [ret |-> "ESP_ERR_NOT_SUPPORTED", ev |-> <<>>, panel |-> p]

panel_axs15260_disp_on_off(p, on_off, r) ==
    LET cmd == IF on_off THEN LCD_CMD_DISPON ELSE LCD_CMD_DISPOFF
    IN  [ret |-> ReturnOnError(r), ev |-> << Tx(p.io, cmd, <<>>, 0, r) >>, panel |-> p]

\* variant: the hold is also made after a failed transmission
panel_axs15260_sleep_HoldsOnError(p, sleep, r) ==
    LET cmd == IF sleep THEN LCD_CMD_SLPIN ELSE LCD_CMD_SLPOUT
    IN  [ret |-> ReturnOnError(r),
         ev |-> << Tx(p.io, cmd, <<>>, 0, r), Delay(IF sleep THEN 5 ELSE 120) >>,
         panel |-> p]

panel_axs15260_sleep(p, sleep, r) ==
    LET cmd == IF sleep THEN LCD_CMD_SLPIN ELSE LCD_CMD_SLPOUT
    IN  IF r # "ESP_OK"
        THEN [ret |-> r, ev |-> << Tx(p.io, cmd, <<>>, 0, r) >>, panel |-> p]
        ELSE [ret |-> "ESP_OK",
              ev |-> << Tx(p.io, cmd, <<>>, 0, r),
                        Delay(IF sleep THEN 5 ELSE 120) >>,
              panel |-> p]

-----------------------------------------------------------------------------
(* The caller: one handler call per step *)

\* transmissions the init sequence makes for this configuration
NumInitTx(cfg) ==
    LET v == cfg.vendor_config
    IN  IF v.null \/ v.use_mipi_interface = 0 \/ v.dsi_bus = NULL \/ v.dpi_config = NULL
        THEN 0
        ELSE IF v.init_cmds # NullTable /\ v.init_cmds_size > 0
        THEN v.init_cmds_size
        ELSE Len(DefaultCmds(0))

\* failing transmissions of a run of n: none, any single one, or all
FailPatterns(n) == {{}} \cup {{i} : i \in 1..n} \cup {1..n}

\* what the heap, the transport and esp_lcd_new_panel_dpi answer
Envs(io, cfg, ret_ptr) ==
    IF io = NULL \/ cfg.null \/ ret_ptr = NULL
    THEN {[calloc_ok |-> TRUE, fails |-> {}, dpi_res |-> "ESP_OK", dpi_handle |-> "dpi_a"]}
    ELSE {[calloc_ok |-> TRUE, fails |-> f, dpi_res |-> "ESP_OK", dpi_handle |-> h] :
             f \in FailPatterns(NumInitTx(cfg)),
             h \in IF NumInitTx(cfg) = 0 THEN {"dpi_a"} ELSE DpiHandles}
         \cup
         {[calloc_ok |-> TRUE, fails |-> {}, dpi_res |-> e, dpi_handle |-> NULL] :
             e \in IF NumInitTx(cfg) = 0 THEN {} ELSE DpiErrors}
         \cup
         {[calloc_ok |-> FALSE, fails |-> {}, dpi_res |-> "ESP_OK", dpi_handle |-> "dpi_a"]}

Snapshot == [phase |-> phase, panel |-> panel, ret_panel |-> ret_panel]

Call(name, args, e, ph, rp) ==
    /\ op' = [name |-> name, args |-> args]
    /\ pre' = Snapshot
    /\ ev' = e.ev
    /\ ret' = e.ret
    /\ panel' = e.panel
    /\ phase' = ph
    /\ ret_panel' = rp
    /\ reset_done' = (reset_done \/ name = "reset")
    /\ UNCHANGED tvars

\* the arguments of the constructor: every configuration with valid pointers,
\* and each NULL argument with the absent and with the default-table configuration
NewArgs ==
    { <<io, cfg, ret_ptr>> :
        io \in IoHandles, cfg \in DevConfigs, ret_ptr \in {"&s_panel"} }
    \cup
    { a \in { <<io, cfg, ret_ptr>> :
                io \in IoHandles \cup {NULL},
                cfg \in {c \in DevConfigs : c.null \/ c.vendor_config.null},
                ret_ptr \in {NULL, "&s_panel"} } :
        a[1] = NULL \/ a[2].null \/ a[3] = NULL }

New ==
    /\ phase = "none"
    /\ \E a \in NewArgs :
         \E env \in Envs(a[1], a[2], a[3]) :
            LET e == esp_lcd_new_panel_axs15260(a[1], a[2], a[3], env)
            IN  Call("new", a, e,
                     IF e.ret = "ESP_OK" THEN "live" ELSE "failed",
                     IF e.out = "unwritten" THEN ret_panel ELSE e.out)

GetDpiPanel ==
    /\ phase \in {"none", "live"}
    /\ \E h \in {NULL} \cup (IF phase = "live" THEN {ret_panel} ELSE {}) :
         Call("get_dpi_panel", <<h>>,
              [ret |-> esp_lcd_axs15260_get_dpi_panel(h, panel), ev |-> <<>>,
               panel |-> panel],
              phase, ret_panel)

Del ==
    /\ phase = "live"
    /\ Call("del", <<>>, panel_axs15260_del(panel), "deleted", ret_panel)

Reset ==
    /\ phase = "live"
    /\ \E r \in IF panel.reset_gpio_num >= 0 THEN {"ESP_OK"} ELSE TxResults :
         Call("reset", <<>>, panel_axs15260_reset(panel, r), phase, ret_panel)

PanelInit ==
    /\ phase = "live"
    /\ \E r \in IF panel.dpi_panel # NULL THEN DrvResults ELSE {"ESP_OK"} :
         Call("init", <<>>, panel_axs15260_init(panel, r), phase, ret_panel)

DrawBitmap ==
    /\ phase = "live"
    /\ \E a \in DrawArgs, r \in IF panel.dpi_panel # NULL THEN DrvResults ELSE {"ESP_OK"} :
         Call("draw_bitmap", a, panel_axs15260_draw_bitmap(panel, a, r), phase, ret_panel)

InvertColor ==
    /\ phase = "live"
    /\ \E b \in BOOLEAN, r \in TxResults :
         Call("invert_color", <<b>>, panel_axs15260_invert_color(panel, b, r),
              phase, ret_panel)

Mirror ==
    /\ phase = "live"
    /\ \E mx \in BOOLEAN, my \in BOOLEAN :
         Call("mirror", <<mx, my>>, panel_axs15260_mirror(panel, mx, my),
              phase, ret_panel)

SwapXY ==
    /\ phase = "live"
    /\ \E s \in BOOLEAN :
         Call("swap_xy", <<s>>, panel_axs15260_swap_xy(panel, s), phase, ret_panel)

SetGap ==
    /\ phase = "live"
    /\ \E a \in GapArgs, r \in IF panel.dpi_panel # NULL THEN DrvResults ELSE {"ESP_OK"} :
         Call("set_gap", a, panel_axs15260_set_gap(panel, a, r), phase, ret_panel)

DispOnOff ==
    /\ phase = "live"
    /\ \E b \in BOOLEAN, r \in TxResults :
         Call("disp_on_off", <<b>>, panel_axs15260_disp_on_off(panel, b, r),
              phase, ret_panel)

Sleep ==
    /\ phase = "live"
    /\ \E b \in BOOLEAN, r \in TxResults :
         Call("sleep", <<b>>, panel_axs15260_sleep(panel, b, r), phase, ret_panel)

\* app_main before lcd_init: no panel has been constructed
PanelBoot ==
    /\ phase = "none"
    /\ panel = NoPanel
    /\ ret_panel = NULL
    /\ op = [name |-> "boot", args |-> <<>>]
    /\ pre = [phase |-> "none", panel |-> NoPanel, ret_panel |-> ret_panel]
    /\ ev = <<>>
    /\ ret = "ESP_OK"
    /\ reset_done = FALSE

\* app_main before touch_init: no touch device, no task inside the driver
TouchOff ==
    /\ tdev = NoPanel
    /\ tpc = [t \in {"lvgl", "app"} |-> "off"]
    /\ tloc = [t \in {"lvgl", "app"} |-> <<>>]
    /\ xfer = {}
    /\ wire = <<>>
    /\ isr = <<>>

Init ==
    /\ PanelBoot
    /\ TouchOff

Next ==
    \/ New
    \/ GetDpiPanel
    \/ Del
    \/ Reset
    \/ PanelInit
    \/ DrawBitmap
    \/ InvertColor
    \/ Mirror
    \/ SwapXY
    \/ SetGap
    \/ DispOnOff
    \/ Sleep

Spec == Init /\ [][Next]_vars

-----------------------------------------------------------------------------
(* Vocabulary of the properties *)

IsTx(e) == e.k = "tx"
IsDpiNew(e) == e.k = "dpi_new"
IsGpioSet(e) == e.k = "gpio_set_level"

\* the transmissions of a handler, in order, as <<command, parameters, length>>
TxProj(s) ==
    LET t == SelectSeq(s, IsTx)
    IN  [i \in 1..Len(t) |-> <<t[i].cmd, t[i].data, t[i].len>>]

\* positions of ev at which esp_lcd_new_panel_dpi is called
DpiNewAt == {i \in 1..Len(ev) : IsDpiNew(ev[i])}

\* the last call was the constructor and it got as far as the init commands
\* (arguments accepted, context allocated, MIPI requested with bus and config)
NewCommitted ==
    /\ op.name = "new"
    /\ Len(ev) > 0
    /\ ev[1] = Calloc(TRUE)
    /\ LET v == op.args[2].vendor_config
       IN  /\ ~v.null
           /\ v.use_mipi_interface = 1
           /\ v.dsi_bus # NULL
           /\ v.dpi_config # NULL

\* the caller supplied a table (non-NULL pointer and a positive count)
CallerSupplied == 
    LET v == op.args[2].vendor_config
    IN  v.init_cmds # NullTable /\ v.init_cmds_size > 0

\* the entries of the caller's table, in table order
CallerTable ==
    LET v == op.args[2].vendor_config
    IN  [i \in 1..v.init_cmds_size |->
            <<v.init_cmds[i].cmd, v.init_cmds[i].data, v.init_cmds[i].data_bytes>>]

\* the built-in sequence for the configured pixel format, in source order
BuiltInTable ==
    LET d == DefaultCmds(ColmodOf(op.args[2].bits_per_pixel))
    IN  [i \in 1..Len(d) |-> <<d[i].cmd, d[i].data, Len(d[i].data)>>]

InitTable == IF CallerSupplied THEN CallerTable ELSE BuiltInTable

\* the last call was made on a panel that already held its DPI panel
WasStreaming == pre.phase = "live" /\ pre.panel.dpi_panel # NULL
WasCommandOnly == pre.phase = "live" /\ pre.panel.dpi_panel = NULL

-----------------------------------------------------------------------------
\* C1: in the constructor's MIPI branch esp_lcd_new_panel_dpi is called exactly
\* once, as the last call of the branch, and the transmissions made before it
\* are exactly the commands of the init table (the caller's, or the built-in
\* one), each once and in table order.
C1_DpiOnceAfterTable ==
    NewCommitted =>
        /\ Cardinality(DpiNewAt) = 1
        /\ DpiNewAt = {Len(ev)}
        /\ TxProj(SubSeq(ev, 1, Len(ev) - 1)) = InitTable

\* a two-entry caller table was sent and the DPI panel then created
C1_Witness ==
    /\ NewCommitted
    /\ CallerSupplied
    /\ Len(CallerTable) >= 2
    /\ CallerTable[1] # CallerTable[2]
    /\ ret = "ESP_OK"
    /\ panel.dpi_panel \in DpiHandles

-----------------------------------------------------------------------------
\* the 26 vendor register writes of the built-in sequence (between unlock and lock)
BuiltInBody == SubSeq(BuiltInTable, 2, 27)

Unlock == <<187, <<0, 0, 0, 0, 0, 0, 90, 165>>, 8>>
Lock == <<187, <<0, 0, 0, 0, 0, 0, 0, 0>>, 8>>

\* unlock, body, lock, COLMOD(pixel format), SLPOUT, DISPON and nothing else
Framed(t, body) ==
    LET n == Len(t)
    IN  /\ n = Len(body) + 5
        /\ t[1] = Unlock
        /\ SubSeq(t, 2, n - 4) = body
        /\ t[n - 3] = Lock
        /\ t[n - 2] = <<LCD_CMD_COLMOD, <<ColmodOf(op.args[2].bits_per_pixel)>>, 1>>
        /\ t[n - 1] = <<LCD_CMD_SLPOUT, <<>>, 0>>
        /\ t[n] = <<LCD_CMD_DISPON, <<>>, 0>>

\* C2 as claimed: with a caller-supplied table and with the built-in one alike,
\* the transmissions are unlock, every table entry in order, lock, COLMOD,
\* sleep-out, display-on.
C2_FramedInBothCases ==
    NewCommitted =>
        Framed(TxProj(ev),
               IF CallerSupplied THEN CallerTable ELSE BuiltInBody)

\* C2 as amended: with the built-in table the transmissions are unlock, the 26
\* register writes in order, lock, COLMOD with the configured pixel-format code,
\* sleep-out, display-on; with a caller-supplied table they are exactly the
\* table's entries in table order, with no unlock, lock, COLMOD, sleep-out or
\* display-on added by the driver.
C2_FramedOnlyBuiltIn ==
    NewCommitted =>
        IF CallerSupplied
        THEN TxProj(ev) = CallerTable
        ELSE Framed(TxProj(ev), BuiltInBody)

\* the built-in sequence went out for RGB565 (COLMOD 0x55) and the DPI panel
\* was created
C2_Witness ==
    /\ NewCommitted
    /\ ~CallerSupplied
    /\ op.args[2].bits_per_pixel = 16
    /\ Len(TxProj(ev)) = 31
    /\ ret = "ESP_OK"

-----------------------------------------------------------------------------
\* C3 as claimed: a call made on a panel that holds its DPI panel transmits no
\* command on the command transport, and the constructor transmits nothing
\* after it has called esp_lcd_new_panel_dpi.
C3_NoTxOnceStreaming ==
    /\ WasStreaming => \A i \in 1..Len(ev) : ~IsTx(ev[i])
    /\ op.name = "new" =>
          \A i \in 1..Len(ev) : \A j \in 1..Len(ev) :
              (IsDpiNew(ev[i]) /\ IsTx(ev[j])) => j < i

-----------------------------------------------------------------------------
\* C4: a call other than del made on a panel that holds its DPI panel leaves
\* the panel live with the same DPI panel handle.
C4_HandleKept ==
    (WasStreaming /\ op.name # "del") =>
        /\ phase = "live"
        /\ panel.dpi_panel = pre.panel.dpi_panel
        /\ ret_panel = pre.ret_panel

\* reset was called on a streaming panel and the handle is still there
C4_Witness ==
    /\ WasStreaming
    /\ op.name = "reset"
    /\ panel.dpi_panel \in DpiHandles

-----------------------------------------------------------------------------
\* C5 as claimed: when the constructor has sent the init commands and created
\* the DPI panel, panel_axs15260_reset has completed before.
C5_ResetBeforeInit ==
    (NewCommitted /\ DpiNewAt # {}) => reset_done

-----------------------------------------------------------------------------
\* C6: draw_bitmap on a panel without DPI panel returns ESP_OK and calls
\* nothing; on a panel with one it makes exactly one call, esp_lcd_panel_draw_bitmap
\* on that handle with the caller's arguments, and returns its result.
C6_DrawForwards ==
    op.name = "draw_bitmap" =>
        /\ panel = pre.panel
        /\ WasCommandOnly => (ret = "ESP_OK" /\ ev = <<>>)
        /\ WasStreaming =>
              /\ Len(ev) = 1
              /\ ev[1].k = "dpi_draw"
              /\ ev[1].handle = pre.panel.dpi_panel
              /\ ev[1].args = op.args
              /\ ret = ev[1].res

\* a draw was forwarded and the DPI panel's error came back
C6_Witness ==
    /\ op.name = "draw_bitmap"
    /\ WasStreaming
    /\ Len(ev) = 1
    /\ ret = "ESP_ERR_INVALID_ARG"

-----------------------------------------------------------------------------
\* C7: mirror and swap_xy return ESP_OK for every argument and in every panel
\* state, call nothing (no transmission, no DPI panel call) and leave the
\* panel context unchanged.
C7_MirrorSwapNoOp ==
    op.name \in {"mirror", "swap_xy"} =>
        /\ ret = "ESP_OK"
        /\ ev = <<>>
        /\ panel = pre.panel
        /\ phase = pre.phase
        /\ ret_panel = pre.ret_panel

\* mirror(true, true) was called on a streaming panel
C7_Witness ==
    /\ op.name = "mirror"
    /\ op.args = <<TRUE, TRUE>>
    /\ WasStreaming
    /\ ret = "ESP_OK"

-----------------------------------------------------------------------------
\* C8: set_gap on a panel without DPI panel returns ESP_ERR_NOT_SUPPORTED,
\* calls nothing and changes nothing; on a panel with one it makes one call,
\* esp_lcd_panel_set_gap on that handle with the caller's gaps, and returns
\* its result.
C8_SetGap ==
    op.name = "set_gap" =>
        /\ panel = pre.panel
        /\ WasCommandOnly => (ret = "ESP_ERR_NOT_SUPPORTED" /\ ev = <<>>)
        /\ WasStreaming =>
              /\ Len(ev) = 1
              /\ ev[1].k = "dpi_set_gap"
              /\ ev[1].handle = pre.panel.dpi_panel
              /\ ev[1].args = op.args
              /\ ret = ev[1].res

\* set_gap was refused on a panel that never switched to streaming
C8_Witness ==
    /\ op.name = "set_gap"
    /\ WasCommandOnly
    /\ ret = "ESP_ERR_NOT_SUPPORTED"

-----------------------------------------------------------------------------
\* levels written to the reset line by the last handler, in order
ResetLevels ==
    LET g == SelectSeq(ev, IsGpioSet)
    IN  [i \in 1..Len(g) |-> g[i].level]

\* C9 as claimed: with a reset line, reset writes inactive, active, inactive,
\* where active is reset_active_high, and so ends with the line released.
C9_ResetReleasesLine ==
    (op.name = "reset" /\ pre.panel.reset_gpio_num >= 0) =>
        LET active == pre.panel.reset_level
        IN  ResetLevels = <<1 - active, active, 1 - active>>

-----------------------------------------------------------------------------
\* C10: when esp_lcd_new_panel_dpi fails, the constructor returns its error
\* code, has called it once only, as its last call, has transmitted each init
\* command once only, and neither stores a handle through ret_panel nor leaves
\* the caller with a panel.
C10_DpiFailureIsFatal ==
    (op.name = "new" /\ \E i \in DpiNewAt : ev[i].res # "ESP_OK") =>
        /\ DpiNewAt = {Len(ev)}
        /\ ret = ev[Len(ev)].res
        /\ TxProj(ev) = InitTable
        /\ ret_panel = pre.ret_panel
        /\ phase = "failed"

\* the built-in sequence went out and esp_lcd_new_panel_dpi then ran out of memory
C10_Witness ==
    /\ NewCommitted
    /\ ~CallerSupplied
    /\ Len(TxProj(ev)) = 31
    /\ ret = "ESP_ERR_NO_MEM"
    /\ ret_panel = NULL

-----------------------------------------------------------------------------
\* some transmission of the last handler failed
SomeTxFailed == \E i \in 1..Len(ev) : IsTx(ev[i]) /\ ev[i].res # "ESP_OK"

\* C11: whichever transmissions of the init sequence fail, every command of
\* the sequence is still transmitted once, in order, esp_lcd_new_panel_dpi is
\* still called after them, and the constructor's result is that call's result
\* (a handle is handed out exactly when it succeeds).
C11_FireAndForget ==
    (NewCommitted /\ SomeTxFailed) =>
        /\ TxProj(ev) = InitTable
        /\ DpiNewAt = {Len(ev)}
        /\ ret = ev[Len(ev)].res
        /\ ret = "ESP_OK" =>
              /\ phase = "live"
              /\ ret_panel = "base"
              /\ panel.dpi_panel = ev[Len(ev)].handle

\* every transmission of the built-in sequence failed and the panel was created
C11_Witness ==
    /\ NewCommitted
    /\ ~CallerSupplied
    /\ \A i \in 1..Len(ev) : IsTx(ev[i]) => ev[i].res = "ESP_FAIL"
    /\ ret = "ESP_OK"
    /\ phase = "live"

-----------------------------------------------------------------------------
\* positions of ev holding a call of kind k
At(k) == {i \in 1..Len(ev) : ev[i].k = k}

\* C12: del deletes the DPI panel (exactly when there is one) before it
\* releases the reset line (exactly when one is configured) and frees the
\* context last; nothing else is called.
C12_DelOrder ==
    op.name = "del" =>
        /\ At("free") = {Len(ev)}
        /\ At("dpi_del") = (IF pre.panel.dpi_panel # NULL THEN {1} ELSE {})
        /\ Cardinality(At("gpio_reset_pin")) =
              (IF pre.panel.reset_gpio_num >= 0 THEN 1 ELSE 0)
        /\ \A i \in At("dpi_del") : ev[i].handle = pre.panel.dpi_panel
        /\ \A i \in At("gpio_reset_pin") : ev[i].gpio = pre.panel.reset_gpio_num
        /\ \A i \in At("dpi_del") : \A j \in At("gpio_reset_pin") : i < j
        /\ Len(ev) = Cardinality(At("dpi_del")) + Cardinality(At("gpio_reset_pin")) + 1
        /\ phase = "deleted"

\* a streaming panel with a reset line was deleted
C12_Witness ==
    /\ op.name = "del"
    /\ WasStreaming
    /\ pre.panel.reset_gpio_num >= 0
    /\ Len(ev) = 3

-----------------------------------------------------------------------------
\* the command invert_color / disp_on_off / sleep sends for its argument
CommandFor(name, b) ==
    CASE name = "invert_color" -> IF b THEN 33 ELSE 32
      [] name = "disp_on_off" -> IF b THEN 41 ELSE 40
      [] name = "sleep" -> IF b THEN 16 ELSE 17

\* C13: invert_color, disp_on_off and sleep each make exactly one transmission,
\* of INVON/INVOFF, DISPON/DISPOFF, SLPIN/SLPOUT as the argument says, without
\* parameters, and return that transmission's result.
C13_OneTxVerbatim ==
    op.name \in {"invert_color", "disp_on_off", "sleep"} =>
        /\ Cardinality(At("tx")) = 1
        /\ ev[1] = Tx(pre.panel.io, CommandFor(op.name, op.args[1]), <<>>, 0, ret)
        /\ panel = pre.panel

\* sleep(false) failed on the transport
C13_Witness ==
    /\ op.name = "sleep"
    /\ op.args = <<FALSE>>
    /\ ret = "ESP_FAIL"
    /\ Len(ev) = 1

-----------------------------------------------------------------------------
(* AXS15260 touch driver (esp_lcd_touch_axs15260.c).                        *)
(*                                                                         *)
(* Several tasks call into the driver with the same handle.  A call that   *)
(* blocks (xSemaphoreTake, an I2C transaction) or that reads or writes the *)
(* shared device structure is split at those points, so that the steps of  *)
(* different tasks interleave; tpc[t] is the next step of task t, "done"   *)
(* when its last call has returned.  tloc[t] holds the call's arguments,   *)
(* locals and the caller's out-parameters, together with a record of what  *)
(* the call did: frame (the bytes its own I2C transaction delivered) and   *)
(* the number of transactions started, buffer fills, calls of              *)
(* xSemaphoreTake (nwait), of them successful (ntake), and gives.          *)

AXS15260_TOUCH_MAX_POINTS == 5

AXS15260_TOUCH_BUF_SIZE == 8

AXS15260_TOUCH_H_RES == 452

AXS15260_TOUCH_V_RES == 1280

\* number of values of a uint16_t
UINT16 == 65536

Tasks == {"lvgl", "app"}

\* results of i2c_master_receive / i2c_master_transmit_receive
I2cResults == {"ESP_OK", "ESP_ERR_TIMEOUT", "ESP_FAIL"}

\* the touch handle a caller passes
TouchHandles == {NULL, "dev"}

TouchFlagSets == [swap_xy : BOOLEAN, mirror_x : BOOLEAN, mirror_y : BOOLEAN]

\* axs15260_touch_config_t as far as the driver keeps it
TouchConfigs(int_gpios, sizes, flagsets) ==
    {[rst_gpio |-> 6, int_gpio |-> g, x_max |-> s[1], y_max |-> s[2], flags |-> f] :
        g \in int_gpios, s \in sizes, f \in flagsets}

\* memset(handle->buf, 0xFF, AXS15260_TOUCH_BUF_SIZE)
Sentinel == [i \in 1..AXS15260_TOUCH_BUF_SIZE |-> 255]

\* the device structure axs15260_touch_new hands out on success
axs15260_touch_new(config) ==
    [rst_gpio |-> config.rst_gpio,
     int_gpio |-> config.int_gpio,
     x_max    |-> IF config.x_max > 0 THEN config.x_max ELSE AXS15260_TOUCH_H_RES,
     y_max    |-> IF config.y_max > 0 THEN config.y_max ELSE AXS15260_TOUCH_V_RES,
     buf      |-> [i \in 1..AXS15260_TOUCH_BUF_SIZE |-> 0],
     callback |-> NULL,
     user_data |-> NULL,
     lock     |-> "free",
     flags    |-> [swap_xy  |-> config.flags.swap_xy,
                   mirror_x |-> config.flags.mirror_x,
                   mirror_y |-> config.flags.mirror_y,
                   inited   |-> TRUE]]

\* status frames the controller answers a read with: every class of the
\* validity check on bytes 0 and 1, and coordinates inside and outside the
\* panel
WideFrames ==
    {<<g, hi * 16 + lo, b2, b3, b4, 120, b6, 144>> :
        g \in {0, 15, 16, 255}, hi \in {0, 4, 8, 1, 15}, lo \in {0, 1, 5, 6, 15},
        b2 \in {18, 128, 255}, b3 \in {52, 100}, b4 \in {86, 0},
        b6 \in {32}}

\* the frames of the concurrent specification: two different touches, an
\* empty report and a frame the validity check rejects
FewFrames ==
    { <<0, 1, 18, 52, 86, 120, 32, 144>>,
      <<3, 2, 128, 100, 0, 120, 255, 144>>,
      <<0, 0, 0, 0, 0, 0, 0, 0>>,
      <<255, 255, 255, 255, 255, 255, 255, 255>> }

\* the two bytes of the firmware version register
VersionBytes == <<1, 5>>

Wires(frames, levels) == [frame : frames, level : levels, version : {VersionBytes}]

\* what a caller's axs15260_touch_data_t holds before the call
StalePoint == [x |-> 65535, y |-> 65535, id |-> 255, event |-> 255,
               weight |-> 255, area |-> 255]

StaleReport == [point_num |-> 255, gesture_id |-> 255,
                points |-> [i \in 1..AXS15260_TOUCH_MAX_POINTS |-> StalePoint]]

REG_VERSION == 12

\* an I2C request: the register written first (-1 for a plain receive) and
\* the number of bytes read
Request(reg, len) == [reg |-> reg, len |-> len]

NoRequest == Request(-1, 0)

\* a task entering a driver call
Fresh(name, h) ==
    [op |-> name, handle |-> h, ret |-> "none", pressed |-> FALSE,
     data |-> StaleReport, version |-> 65535,
     frame |-> <<>>, x |-> 0, y |-> 0, level |-> -1,
     req |-> NoRequest, txres |-> "none", wrote |-> 0,
     cb |-> NULL, ctx |-> NULL, nadd |-> 0,
     ntxn |-> 0, nfill |-> 0, nwait |-> 0, ntake |-> 0, ngive |-> 0]

Goto(t, l) == tpc' = [tpc EXCEPT ![t] = l]

SetLoc(t, r) == tloc' = [tloc EXCEPT ![t] = r]

\* no handler is added for the INT line and touch_isr is not running; cb is
\* the callback pointer touch_isr has tested, last the call it made last
NoHandler == [handler |-> FALSE, pc |-> "idle", cb |-> NULL, last |-> <<>>]

\* ---- axs15260_touch_read --------------------------------------------------

\* xSemaphoreTake(handle->lock, pdMS_TO_TICKS(100)) returning pdTRUE, taken
\* even when another task holds the mutex
xSemaphoreTake_Barging(t) ==
    tdev' = [tdev EXCEPT !.lock = t]

\* xSemaphoreTake(handle->lock, pdMS_TO_TICKS(100)) returning pdTRUE
xSemaphoreTake(t) ==
    /\ tdev.lock = "free"
    /\ tdev' = [tdev EXCEPT !.lock = t]

\* the validity check without the test of the gesture byte and point count
ValidateFrame_NoHeaderCheck(b, d) ==
    LET gesture    == b[1]
        point_byte == b[2]
        point_num  == point_byte % 16
        esd_flag   == point_byte \div 16
    IN  IF esd_flag # 0 /\ esd_flag # 8 /\ esd_flag # 4
        THEN [data |-> [d EXCEPT !.gesture_id = gesture, !.point_num = 0],
              point |-> FALSE]
        ELSE [data |-> [d EXCEPT !.gesture_id = gesture, !.point_num = point_num],
              point |-> point_num > 0]

\* the validity check without the test of the status nibble
ValidateFrame_NoStatusCheck(b, d) ==
    LET gesture    == b[1]
        point_byte == b[2]
        point_num  == point_byte % 16
    IN  IF gesture > 15 \/ point_num > AXS15260_TOUCH_MAX_POINTS
        THEN [data |-> [d EXCEPT !.point_num = 0, !.gesture_id = 0], point |-> FALSE]
        ELSE [data |-> [d EXCEPT !.gesture_id = gesture, !.point_num = point_num],
              point |-> point_num > 0]

\* the validity check and the header of the report: the report after it and
\* whether a point is decoded next
ValidateFrame(b, d) ==
    LET gesture    == b[1]
        point_byte == b[2]
        point_num  == point_byte % 16
        esd_flag   == point_byte \div 16
    IN  IF gesture > 15 \/ point_num > AXS15260_TOUCH_MAX_POINTS
        THEN [data |-> [d EXCEPT !.point_num = 0, !.gesture_id = 0], point |-> FALSE]
        ELSE IF esd_flag # 0 /\ esd_flag # 8 /\ esd_flag # 4
        THEN [data |-> [d EXCEPT !.gesture_id = gesture, !.point_num = 0],
              point |-> FALSE]
        ELSE LET n == IF point_num > AXS15260_TOUCH_MAX_POINTS
                      THEN AXS15260_TOUCH_MAX_POINTS ELSE point_num
             IN  [data |-> [d EXCEPT !.gesture_id = gesture, !.point_num = n],
                  point |-> n > 0]

\* uint16_t x = ((buf[2] & 0x0F) << 8) | buf[3]
RawX(b) == ((b[3] % 16) * 256) + b[4]

\* uint16_t y = ((buf[4] & 0x0F) << 8) | buf[5]
RawY(b) == ((b[5] % 16) * 256) + b[6]

\* x = handle->x_max - 1 - x, stored back into a uint16_t
MirrorCoord_OffByOne(max, v) == (max - v) % UINT16

MirrorCoord(max, v) == (max - 1 - v) % UINT16

\* the assignments made to every entry of data->points up to point_num
WritePoint_EveryPoint(d, b, x, y) ==
    [d EXCEPT !.points = [i \in 1..AXS15260_TOUCH_MAX_POINTS |->
                            IF i <= d.point_num
                            THEN [x |-> x, y |-> y,
                                  event  |-> b[3] \div 64,
                                  id     |-> b[5] \div 16,
                                  weight |-> b[7],
                                  area   |-> b[8] \div 16]
                            ELSE d.points[i]]]

\* the assignments to data->points[0], weight and area exchanged
WritePoint_Exchanged(d, b, x, y) ==
    [d EXCEPT !.points[1] = [x |-> x, y |-> y,
                             event  |-> b[3] \div 64,
                             id     |-> b[5] \div 16,
                             weight |-> b[8] \div 16,
                             area   |-> b[7]]]

\* the assignments to data->points[0]
WritePoint(d, b, x, y) ==
    [d EXCEPT !.points[1] = [x |-> x, y |-> y,
                             event  |-> b[3] \div 64,
                             id     |-> b[5] \div 16,
                             weight |-> b[7],
                             area   |-> b[8] \div 16]]

\* the call and its argument check
ReadCall ==
    \E t \in Tasks, h \in TouchHandles :
        /\ tpc[t] = "done"
        /\ IF h = NULL
           THEN /\ SetLoc(t, [Fresh("read", h) EXCEPT !.ret = "ESP_ERR_INVALID_ARG"])
                /\ Goto(t, "done")
           ELSE /\ SetLoc(t, Fresh("read", h))
                /\ Goto(t, "take")
        /\ UNCHANGED <<tdev, xfer, wire>>
        /\ UNCHANGED <<pvars, isr>>

\* the mutex is obtained within the 100 ms
ReadTake ==
    \E t \in Tasks :
        /\ tpc[t] = "take"
        /\ xSemaphoreTake(t)
        /\ SetLoc(t, [tloc[t] EXCEPT !.nwait = @ + 1, !.ntake = @ + 1])
        /\ Goto(t, "fill")
        /\ UNCHANGED <<xfer, wire>>
        /\ UNCHANGED <<pvars, isr>>

\* the 100 ms pass while another task holds the mutex, the lock is given
\* all the same
TimedOut_Gives(t) ==
    /\ tdev' = [tdev EXCEPT !.lock = "free"]
    /\ SetLoc(t, [tloc[t] EXCEPT !.ret = "ESP_ERR_TIMEOUT", !.nwait = @ + 1,
                                  !.ngive = @ + 1])

\* the 100 ms pass while another task holds the mutex: return ESP_ERR_TIMEOUT
TimedOut(t) ==
    /\ tdev' = tdev
    /\ SetLoc(t, [tloc[t] EXCEPT !.ret = "ESP_ERR_TIMEOUT", !.nwait = @ + 1])

\* a wait without time limit (portMAX_DELAY) never expires
WaitExpired_Never(t) == FALSE

\* the 100 ms of pdMS_TO_TICKS(100) can only pass without the mutex while
\* another task holds it
WaitExpired(t) == tdev.lock \notin {"free", t}

ReadTimeout ==
    \E t \in Tasks :
        /\ tpc[t] = "take"
        /\ WaitExpired(t)
        /\ TimedOut(t)
        /\ Goto(t, "done")
        /\ UNCHANGED <<xfer, wire>>
        /\ UNCHANGED <<pvars, isr>>

\* the buffer left as the last read left it
FillBuf_Skipped(dev) == dev

\* memset(handle->buf, 0xFF, AXS15260_TOUCH_BUF_SIZE)
FillBuf(dev) == [dev EXCEPT !.buf = Sentinel]

\* memset(handle->buf, 0xFF, 8)
ReadFill ==
    \E t \in Tasks :
        /\ tpc[t] = "fill"
        /\ tdev' = FillBuf(tdev)
        /\ SetLoc(t, [tloc[t] EXCEPT !.nfill = @ + 1])
        /\ Goto(t, "bus")
        /\ UNCHANGED <<xfer, wire>>
        /\ UNCHANGED <<pvars, isr>>

\* touch_i2c_read: i2c_master_receive starts
ReadBusStart ==
    \E t \in Tasks :
        /\ tpc[t] = "bus"
        /\ xfer' = xfer \cup {t}
        /\ SetLoc(t, [tloc[t] EXCEPT !.ntxn = @ + 1,
                                      !.req = Request(-1, AXS15260_TOUCH_BUF_SIZE)])
        /\ Goto(t, "recv")
        /\ UNCHANGED <<tdev, wire>>
        /\ UNCHANGED <<pvars, isr>>

\* i2c_master_receive returns: the 8 bytes are in handle->buf, or an error
ReadBusEnd ==
    \E t \in Tasks, r \in I2cResults :
        /\ tpc[t] = "recv"
        /\ xfer' = xfer \ {t}
        /\ IF r = "ESP_OK"
           THEN /\ tdev' = [tdev EXCEPT !.buf = wire.frame]
                /\ SetLoc(t, [tloc[t] EXCEPT !.ret = r, !.txres = r,
                                              !.frame = wire.frame,
                                              !.wrote = AXS15260_TOUCH_BUF_SIZE])
                /\ Goto(t, "validate")
           ELSE /\ tdev' = tdev
                /\ SetLoc(t, [tloc[t] EXCEPT !.ret = r, !.txres = r])
                /\ Goto(t, "fail")
        /\ UNCHANGED wire
        /\ UNCHANGED <<pvars, isr>>

\* xSemaphoreGive(handle->lock) left out
xSemaphoreGive_Dropped(t) ==
    tdev' = tdev

\* xSemaphoreGive(handle->lock)
xSemaphoreGive(t) ==
    tdev' = [tdev EXCEPT !.lock = "free"]

\* the failure path returning ESP_FAIL whatever the transport reported
FailReturn_Masked(t) ==
    SetLoc(t, [tloc[t] EXCEPT !.ret = "ESP_FAIL", !.ngive = @ + 1])

\* the failure path: the lock is given and ret is returned as it is
FailReturn(t) ==
    SetLoc(t, [tloc[t] EXCEPT !.ngive = @ + 1])

\* i2c_master_receive returns ESP_OK having stored only the first n bytes,
\* n < 2: the rest of handle->buf is what it was when the read started
ReadBusEndShort ==
    \E t \in Tasks, n \in {0, 1} :
        /\ tpc[t] = "recv"
        /\ xfer' = xfer \ {t}
        /\ LET b == [i \in 1..AXS15260_TOUCH_BUF_SIZE |->
                       IF i <= n THEN wire.frame[i] ELSE tdev.buf[i]]
           IN  /\ tdev' = [tdev EXCEPT !.buf = b]
               /\ SetLoc(t, [tloc[t] EXCEPT !.ret = "ESP_OK", !.txres = "ESP_OK",
                                             !.frame = b, !.wrote = n])
        /\ Goto(t, "validate")
        /\ UNCHANGED wire
        /\ UNCHANGED <<pvars, isr>>

\* if (ret != ESP_OK) { xSemaphoreGive(handle->lock); return ret; }
ReadFail ==
    \E t \in Tasks :
        /\ tpc[t] = "fail"
        /\ xSemaphoreGive(t)
        /\ FailReturn(t)
        /\ Goto(t, "done")
        /\ UNCHANGED <<xfer, wire>>
        /\ UNCHANGED <<pvars, isr>>

\* the validity check on handle->buf, the report header, and x and y
ReadValidate ==
    \E t \in Tasks :
        /\ tpc[t] = "validate"
        /\ LET v == ValidateFrame(tdev.buf, tloc[t].data)
           IN  IF v.point
               THEN /\ SetLoc(t, [tloc[t] EXCEPT !.data = v.data,
                                                 !.x = RawX(tdev.buf),
                                                 !.y = RawY(tdev.buf)])
                    /\ Goto(t, "swap")
               ELSE /\ SetLoc(t, [tloc[t] EXCEPT !.data = v.data])
                    /\ Goto(t, "give")
        /\ UNCHANGED <<tdev, xfer, wire>>
        /\ UNCHANGED <<pvars, isr>>

\* if (handle->flags.swap_xy) { tmp = x; x = y; y = tmp; }
ReadSwap ==
    \E t \in Tasks :
        /\ tpc[t] = "swap"
        /\ IF tdev.flags.swap_xy
           THEN SetLoc(t, [tloc[t] EXCEPT !.x = tloc[t].y, !.y = tloc[t].x])
           ELSE SetLoc(t, tloc[t])
        /\ Goto(t, "mirror_x")
        /\ UNCHANGED <<tdev, xfer, wire>>
        /\ UNCHANGED <<pvars, isr>>

\* if (handle->flags.mirror_x) x = handle->x_max - 1 - x;
ReadMirrorX ==
    \E t \in Tasks :
        /\ tpc[t] = "mirror_x"
        /\ IF tdev.flags.mirror_x
           THEN SetLoc(t, [tloc[t] EXCEPT !.x = MirrorCoord(tdev.x_max, @)])
           ELSE SetLoc(t, tloc[t])
        /\ Goto(t, "mirror_y")
        /\ UNCHANGED <<tdev, xfer, wire>>
        /\ UNCHANGED <<pvars, isr>>

\* if (handle->flags.mirror_y) y = handle->y_max - 1 - y; and the
\* assignments to data->points[0]
ReadMirrorY ==
    \E t \in Tasks :
        /\ tpc[t] = "mirror_y"
        /\ LET y == IF tdev.flags.mirror_y
                    THEN MirrorCoord(tdev.y_max, tloc[t].y) ELSE tloc[t].y
           IN  SetLoc(t, [tloc[t] EXCEPT
                            !.y = y,
                            !.data = WritePoint(@, tdev.buf, tloc[t].x, y)])
        /\ Goto(t, "give")
        /\ UNCHANGED <<tdev, xfer, wire>>
        /\ UNCHANGED <<pvars, isr>>

\* xSemaphoreGive(handle->lock); return ESP_OK;
ReadGive ==
    \E t \in Tasks :
        /\ tpc[t] = "give"
        /\ xSemaphoreGive(t)
        /\ SetLoc(t, [tloc[t] EXCEPT !.ret = "ESP_OK", !.ngive = @ + 1])
        /\ Goto(t, "done")
        /\ UNCHANGED <<xfer, wire>>
        /\ UNCHANGED <<pvars, isr>>

\* ---- axs15260_touch_get_version -------------------------------------------

\* the two bytes taken low byte first
VersionOf_LittleEndian(data) == data[2] * 256 + data[1]

\* *version = (data[0] << 8) | data[1]
VersionOf(data) == data[1] * 256 + data[2]

\* the call, its argument check and the start of i2c_master_transmit_receive
VersionCall ==
    \E t \in Tasks, h \in TouchHandles :
        /\ tpc[t] = "done"
        /\ IF h = NULL
           THEN /\ SetLoc(t, [Fresh("get_version", h) EXCEPT
                                !.ret = "ESP_ERR_INVALID_ARG"])
                /\ Goto(t, "done")
                /\ xfer' = xfer
           ELSE /\ SetLoc(t, [Fresh("get_version", h) EXCEPT
                                !.ntxn = 1, !.req = Request(REG_VERSION, 2)])
                /\ Goto(t, "version_recv")
                /\ xfer' = xfer \cup {t}
        /\ UNCHANGED <<tdev, wire>>
        /\ UNCHANGED <<pvars, isr>>

\* i2c_master_transmit_receive returns
VersionBusEnd ==
    \E t \in Tasks, r \in I2cResults :
        /\ tpc[t] = "version_recv"
        /\ xfer' = xfer \ {t}
        /\ IF r = "ESP_OK"
           THEN SetLoc(t, [tloc[t] EXCEPT
                             !.ret = r, !.txres = r,
                             !.version = VersionOf(wire.version)])
           ELSE SetLoc(t, [tloc[t] EXCEPT !.ret = r, !.txres = r])
        /\ Goto(t, "done")
        /\ UNCHANGED <<tdev, wire>>
        /\ UNCHANGED <<pvars, isr>>

\* ---- axs15260_touch_is_pressed --------------------------------------------

\* the value returned when gpio_get_level is compared with 1
axs15260_touch_is_pressed_High(h, dev, level) ==
    IF h = NULL \/ dev.int_gpio < 0 THEN FALSE ELSE level = 1

\* the value returned, level being what gpio_get_level(int_gpio) reads
axs15260_touch_is_pressed(h, dev, level) ==
    IF h = NULL \/ dev.int_gpio < 0 THEN FALSE ELSE level = 0

IsPressed ==
    \E t \in Tasks, h \in TouchHandles :
        /\ tpc[t] = "done"
        /\ SetLoc(t, [Fresh("is_pressed", h) EXCEPT
                        !.pressed = axs15260_touch_is_pressed(h, tdev, wire.level),
                        !.level = IF h = NULL \/ tdev.int_gpio < 0
                                  THEN -1 ELSE wire.level])
        /\ UNCHANGED <<tdev, tpc, xfer, wire>>
        /\ UNCHANGED <<pvars, isr>>

\* ---- the touch controller -------------------------------------------------

\* a finger lands, moves or lifts: the controller's status frame and its
\* interrupt line change
DeviceChanges ==
    /\ wire' \in Wires(FewFrames, {0, 1}) \ {wire}
    /\ UNCHANGED <<tdev, tpc, tloc, xfer>>
    /\ UNCHANGED <<pvars, isr>>

\* ---- specifications -------------------------------------------------------

\* app_main back from axs15260_touch_new: the version read at the end of the
\* constructor returned version_res, which is only logged
AfterNew(version_res) ==
    [Fresh("new", "dev") EXCEPT !.ret = "ESP_OK", !.txres = version_res,
                                !.ntxn = 1, !.req = Request(REG_VERSION, 2)]

\* after touch_init: the device is constructed, both tasks are outside the
\* driver
TouchInit ==
    /\ PanelBoot
    /\ tdev \in {axs15260_touch_new(c) :
                   c \in TouchConfigs({-1, 21}, {<<0, 0>>},
                                      {[swap_xy |-> FALSE, mirror_x |-> FALSE,
                                        mirror_y |-> FALSE]})}
    /\ tpc = [t \in Tasks |-> "done"]
    /\ \E version_res \in I2cResults :
         tloc = [t \in Tasks |-> IF t = "app" THEN AfterNew(version_res)
                                            ELSE Fresh("none", "dev")]
    /\ xfer = {}
    /\ wire \in Wires({<<0, 0, 0, 0, 0, 0, 0, 0>>}, {0, 1})
    /\ isr = NoHandler

TouchNext ==
    \/ ReadCall
    \/ ReadTake
    \/ ReadTimeout
    \/ ReadFill
    \/ ReadBusStart
    \/ ReadBusEnd
    \/ ReadFail
    \/ ReadValidate
    \/ ReadSwap
    \/ ReadMirrorX
    \/ ReadMirrorY
    \/ ReadGive
    \/ VersionCall
    \/ VersionBusEnd
    \/ IsPressed
    \/ DeviceChanges

TouchSpec == TouchInit /\ [][TouchNext]_vars

\* one task reading, the controller holding one status frame: every frame
\* class under every coordinate transform
DecodeInit ==
    /\ PanelBoot
    /\ tdev \in {axs15260_touch_new(c) :
                   c \in TouchConfigs({21}, {<<0, 0>>, <<480, 800>>}, TouchFlagSets)}
    /\ tpc = [t \in Tasks |-> IF t = "lvgl" THEN "done" ELSE "off"]
    /\ tloc = [t \in Tasks |-> Fresh("none", "dev")]
    /\ xfer = {}
    /\ wire \in Wires(WideFrames, {1})
    /\ isr = NoHandler

DecodeNext ==
    \/ ReadCall
    \/ ReadTake
    \/ ReadFill
    \/ ReadBusStart
    \/ ReadBusEnd
    \/ ReadFail
    \/ ReadValidate
    \/ ReadSwap
    \/ ReadMirrorX
    \/ ReadMirrorY
    \/ ReadGive

DecodeSpec == DecodeInit /\ [][DecodeNext]_vars

-----------------------------------------------------------------------------
(* Properties of the touch driver *)

\* task t is inside axs15260_touch_read between the return of its own bus
\* read and the end of its decode
Decoding(t) == tpc[t] \in {"validate", "swap", "mirror_x", "mirror_y"}

\* task t's call of axs15260_touch_read has returned
ReadReturned(t) == tloc[t].op = "read" /\ tpc[t] = "done"

\* report d carries the header and the byte-derived point fields of frame f
FromFrame(d, f) ==
    /\ d.point_num = ValidateFrame(f, StaleReport).data.point_num
    /\ d.gesture_id = ValidateFrame(f, StaleReport).data.gesture_id
    /\ d.point_num > 0 =>
         /\ d.points[1].event = f[3] \div 64
         /\ d.points[1].id = f[5] \div 16
         /\ d.points[1].weight = f[7]
         /\ d.points[1].area = f[8] \div 16

\* C14: under every interleaving of two tasks calling axs15260_touch_read on
\* one handle, from the return of a caller's bus read to the end of its
\* decode the caller holds the lock and handle->buf holds the 8 bytes of that
\* caller's own transaction (no sentinel fill and no other transaction has
\* written it); the sentinel fill is not overwritten before the caller's own
\* transaction ends; and every report returned with success is the decode of
\* the bytes of the caller's one transaction.
C14_OneTransactionPerReport ==
    \A t \in Tasks :
        /\ Decoding(t) => tdev.lock = t /\ tdev.buf = tloc[t].frame
        /\ tpc[t] \in {"bus", "recv"} => tdev.lock = t /\ tdev.buf = Sentinel
        /\ (ReadReturned(t) /\ tloc[t].ret = "ESP_OK") =>
             /\ tloc[t].ntxn = 1
             /\ FromFrame(tloc[t].data, tloc[t].frame)

\* a read has returned a touch point and the other task, inside
\* axs15260_touch_read on the same handle, is decoding the bytes of another
\* transaction out of the same buffer
C14_Witness ==
    \E t \in Tasks, u \in Tasks :
        /\ t # u
        /\ ReadReturned(t) /\ tloc[t].ret = "ESP_OK"
        /\ tloc[t].data.point_num > 0
        /\ tloc[u].op = "read" /\ tpc[u] = "mirror_y"
        /\ tloc[u].frame # tloc[t].frame

\* C15: at most one I2C transaction of the touch driver is in progress at
\* any time, whatever the interleaving of callers of axs15260_touch_read and
\* axs15260_touch_get_version on one handle.
C15_OneTransactionAtATime == Cardinality(xfer) <= 1

\* frame f fails the validity check for its gesture byte or its point count
BadHeader(f) == f[1] > 15 \/ (f[2] % 16) > 5

\* the frame's status nibble is none of 0, 4, 8
BadStatus(f) == (f[2] \div 16) \notin {0, 4, 8}

\* C16: for every 8-byte frame a successful bus read delivers, if byte 0 is
\* above 0x0F, or the low nibble of byte 1 is above 5, or the high nibble of
\* byte 1 is none of 0, 4, 8, then axs15260_touch_read returns ESP_OK (never
\* an error) with point_num = 0 and points[] as the caller passed it; in the
\* first two cases gesture_id is 0 as well.
C16_RejectedFrameIsEmptyReport ==
    \A t \in Tasks :
        (ReadReturned(t) /\ tloc[t].frame # <<>>
           /\ (BadHeader(tloc[t].frame) \/ BadStatus(tloc[t].frame))) =>
            /\ tloc[t].ret = "ESP_OK"
            /\ tloc[t].data.point_num = 0
            /\ tloc[t].data.points = StaleReport.points
            /\ BadHeader(tloc[t].frame) => tloc[t].data.gesture_id = 0

\* a read has returned for a frame whose header is good (gesture 15, one
\* point) and whose status nibble is 1: the report is empty and keeps the
\* gesture byte
C16_Witness ==
    \E t \in Tasks :
        /\ ReadReturned(t) /\ tloc[t].frame # <<>>
        /\ ~BadHeader(tloc[t].frame) /\ BadStatus(tloc[t].frame)
        /\ tloc[t].frame[1] = 15 /\ tloc[t].frame[2] = 17
        /\ tloc[t].data.gesture_id = 15

\* frame f passes the validity check and reports at least one point
Accepted(f) == ~BadHeader(f) /\ ~BadStatus(f) /\ (f[2] % 16) \in 1..5

NoTransform == ~tdev.flags.swap_xy /\ ~tdev.flags.mirror_x /\ ~tdev.flags.mirror_y

\* the frame 00 01 12 34 56 78 20 90
ExampleFrame == <<0, 1, 18, 52, 86, 120, 32, 144>>

\* C17: for every accepted frame whose low nibble of byte 1 is n in 1..5,
\* with swap_xy, mirror_x and mirror_y all off, axs15260_touch_read returns
\* point_num = n, gesture_id = byte 0 and points[0] with
\* x = ((b2 & 0x0F) << 8) | b3, y = ((b4 & 0x0F) << 8) | b5, event = b2 >> 6,
\* id = b4 >> 4, weight = b6, area = b7 >> 4; the frame 00 01 12 34 56 78 20 90
\* gives x = 0x234, y = 0x678, event 0, id 5, weight 0x20, area 9.
C17_FirstPointDecode ==
    \A t \in Tasks :
        (ReadReturned(t) /\ tloc[t].frame # <<>> /\ Accepted(tloc[t].frame)
           /\ NoTransform) =>
            LET f == tloc[t].frame
                d == tloc[t].data
            IN  /\ tloc[t].ret = "ESP_OK"
                /\ d.point_num = f[2] % 16
                /\ d.gesture_id = f[1]
                /\ d.points[1] = [x      |-> (f[3] % 16) * 256 + f[4],
                                  y      |-> (f[5] % 16) * 256 + f[6],
                                  event  |-> f[3] \div 64,
                                  id     |-> f[5] \div 16,
                                  weight |-> f[7],
                                  area   |-> f[8] \div 16]
                /\ f = ExampleFrame =>
                     d.points[1] = [x |-> 564, y |-> 1656, event |-> 0, id |-> 5,
                                    weight |-> 32, area |-> 9]

\* a read of the example frame has returned with no transform configured
C17_Witness ==
    \E t \in Tasks :
        /\ ReadReturned(t) /\ tloc[t].ret = "ESP_OK"
        /\ tloc[t].frame = ExampleFrame
        /\ NoTransform
        /\ tloc[t].data.point_num = 1

\* the coordinate pair after the exchange, if swap_xy is set
AfterSwap(f) ==
    IF tdev.flags.swap_xy
    THEN [x |-> (f[5] % 16) * 256 + f[6], y |-> (f[3] % 16) * 256 + f[4]]
    ELSE [x |-> (f[3] % 16) * 256 + f[4], y |-> (f[5] % 16) * 256 + f[6]]

\* C18: for every accepted frame with a point and every combination of
\* swap_xy, mirror_x and mirror_y, the reported coordinates are the raw
\* (x, y) transformed in this order: x and y exchanged if swap_xy, then
\* x := x_max - 1 - x if mirror_x, then y := y_max - 1 - y if mirror_y, each
\* assignment storing into the 16-bit coordinate; swap alone on raw
\* (0x234, 0x678) gives (0x678, 0x234), and mirror_x with x_max = 452 on raw
\* x = 100 gives 351.
C18_TransformOrder ==
    \A t \in Tasks :
        (ReadReturned(t) /\ tloc[t].frame # <<>> /\ Accepted(tloc[t].frame)) =>
            LET f == tloc[t].frame
                p == tloc[t].data.points[1]
                s == AfterSwap(f)
                fl == tdev.flags
            IN  /\ p.x = IF fl.mirror_x THEN (tdev.x_max - 1 - s.x) % 65536 ELSE s.x
                /\ p.y = IF fl.mirror_y THEN (tdev.y_max - 1 - s.y) % 65536 ELSE s.y
                /\ (f = ExampleFrame /\ fl.swap_xy /\ ~fl.mirror_x /\ ~fl.mirror_y) =>
                     p.x = 1656 /\ p.y = 564
                /\ (fl.mirror_x /\ ~fl.swap_xy /\ tdev.x_max = 452
                      /\ (f[3] % 16) * 256 + f[4] = 100) =>
                     p.x = 351

\* a read has returned a point with all three flags set, on a frame whose raw
\* x and y differ and whose raw y, exchanged into x, lies left of x_max
C18_Witness ==
    \E t \in Tasks :
        /\ ReadReturned(t) /\ tloc[t].frame # <<>> /\ Accepted(tloc[t].frame)
        /\ tdev.flags.swap_xy /\ tdev.flags.mirror_x /\ tdev.flags.mirror_y
        /\ tdev.x_max = 452
        /\ tloc[t].frame[3] = 128 /\ tloc[t].frame[4] = 100
        /\ tloc[t].frame[5] = 0 /\ tloc[t].frame[6] = 120
        /\ tloc[t].data.points[1].x = 331
        /\ tloc[t].data.points[1].y = 1179

\* task t's last call was axs15260_touch_is_pressed, which has returned
PressedReturned(t) == tloc[t].op = "is_pressed" /\ tpc[t] = "done"

\* C19: axs15260_touch_is_pressed on a device without interrupt line, or on
\* a null handle, returns false in every state; in every case it starts no
\* bus transaction and does not take the read lock (it returns while another
\* task's read is in progress); with a line configured it returns true
\* exactly when the level it read from the line is low.
C19_IsPressed ==
    \A t \in Tasks :
        PressedReturned(t) =>
            /\ (tloc[t].handle = NULL \/ tdev.int_gpio < 0) =>
                 ~tloc[t].pressed /\ tloc[t].level = -1
            /\ (tloc[t].handle # NULL /\ tdev.int_gpio >= 0) =>
                 /\ tloc[t].level \in {0, 1}
                 /\ tloc[t].pressed <=> (tloc[t].level = 0)
            /\ tloc[t].ntxn = 0 /\ t \notin xfer
            /\ tloc[t].ntake = 0 /\ tdev.lock # t

\* is_pressed has returned true while the other task holds the read lock
\* with its bus transaction in progress
C19_Witness ==
    \E t \in Tasks, u \in Tasks :
        /\ PressedReturned(t) /\ tloc[t].pressed
        /\ tdev.lock = u /\ tpc[u] = "recv" /\ u \in xfer

\* task t's call of axs15260_touch_read has returned without ever having
\* obtained the lock it waited for
LockTimedOut(t) == ReadReturned(t) /\ tloc[t].nwait > 0 /\ tloc[t].ntake = 0

\* C20: a call of axs15260_touch_read that cannot obtain the lock within its
\* bounded wait returns ESP_ERR_TIMEOUT after one attempt (no retry), starts
\* no bus transaction, does not write handle->buf (no sentinel fill), leaves
\* the caller's report as it was, and gives no lock.
C20_LockTimeout ==
    \A t \in Tasks :
        LockTimedOut(t) =>
            /\ tloc[t].ret = "ESP_ERR_TIMEOUT"
            /\ tloc[t].nwait = 1
            /\ tloc[t].ntxn = 0 /\ t \notin xfer
            /\ tloc[t].nfill = 0
            /\ tloc[t].data = StaleReport
            /\ tloc[t].ngive = 0
            /\ tdev.lock # t

\* a read has timed out on the lock while the other task, still holding it,
\* is decoding its frame out of the untouched buffer
C20_Witness ==
    \E t \in Tasks, u \in Tasks :
        /\ LockTimedOut(t)
        /\ tdev.lock = u /\ Decoding(u)
        /\ tdev.buf = tloc[u].frame /\ tdev.buf # Sentinel

\* task t's call of axs15260_touch_read has returned after obtaining the lock
LockedReadReturned(t) == ReadReturned(t) /\ tloc[t].ntake = 1

\* C21: every call of axs15260_touch_read that obtains the lock makes exactly
\* one bus transaction, a plain receive of 8 bytes; when that transaction
\* fails the call returns the transport's error code unchanged, without a
\* second transaction, with the lock given once and no longer held, and with
\* the caller's report as it was.
C21_OneBlockReadErrorVerbatim ==
    \A t \in Tasks :
        LockedReadReturned(t) =>
            /\ tloc[t].ntxn = 1
            /\ tloc[t].req = Request(-1, 8)
            /\ tloc[t].txres # "ESP_OK" =>
                 /\ tloc[t].ret = tloc[t].txres
                 /\ tloc[t].ret \in {"ESP_ERR_TIMEOUT", "ESP_FAIL"}
                 /\ tloc[t].ngive = 1 /\ tdev.lock # t
                 /\ tloc[t].data = StaleReport

\* a read whose bus transaction timed out has returned, and the other task
\* has since obtained the lock
C21_Witness ==
    \E t \in Tasks, u \in Tasks :
        /\ LockedReadReturned(t)
        /\ tloc[t].txres = "ESP_ERR_TIMEOUT" /\ tloc[t].ret = "ESP_ERR_TIMEOUT"
        /\ tdev.lock = u /\ tpc[u] = "fill"

\* task t's call of axs15260_touch_get_version on the device has returned
VersionReturned(t) ==
    tloc[t].op = "get_version" /\ tpc[t] = "done" /\ tloc[t].handle # NULL

\* C23: axs15260_touch_get_version makes a single write-then-read of register
\* 0x0C for 2 bytes and reports byte0 * 256 + byte1; on a transport failure
\* it returns the transport's error and leaves *version as it was; and when
\* the version read inside axs15260_touch_new fails, the constructor still
\* returns ESP_OK with an initialised device whose lock is there to be taken.
C23_VersionRead ==
    \A t \in Tasks :
        /\ VersionReturned(t) =>
             /\ tloc[t].ntxn = 1
             /\ tloc[t].req = Request(12, 2)
             /\ tloc[t].txres = "ESP_OK" =>
                  /\ tloc[t].ret = "ESP_OK"
                  /\ tloc[t].version = wire.version[1] * 256 + wire.version[2]
             /\ tloc[t].txres # "ESP_OK" =>
                  /\ tloc[t].ret = tloc[t].txres
                  /\ tloc[t].version = 65535
        /\ tloc[t].op = "new" =>
             /\ tloc[t].ret = "ESP_OK"
             /\ tloc[t].handle = "dev"
             /\ tdev.flags.inited
             /\ tdev.lock \in {"free"} \cup Tasks

\* the constructor returned after a failed version read, and a later
\* get_version on the handle it gave has returned the version 0x0105
C23_Witness ==
    \E t \in Tasks, u \in Tasks :
        /\ tloc[u].op = "new" /\ tloc[u].txres = "ESP_FAIL"
        /\ VersionReturned(t) /\ tloc[t].ret = "ESP_OK"
        /\ tloc[t].version = 261

\* C24: whatever the 8 bytes of the frame, a call of axs15260_touch_read that
\* returns ESP_OK after its bus read reports point_num in 0..5 and gesture_id
\* in 0..15, and the id of a reported point is in 0..15.
C24_ReportRanges ==
    \A t \in Tasks :
        (ReadReturned(t) /\ tloc[t].frame # <<>> /\ tloc[t].ret = "ESP_OK") =>
            /\ tloc[t].data.point_num \in 0..5
            /\ tloc[t].data.gesture_id \in 0..15
            /\ tloc[t].data.point_num > 0 => tloc[t].data.points[1].id \in 0..15

\* a read of a frame of all 0xFF header bytes has returned an empty report
C24_Witness ==
    \E t \in Tasks :
        /\ ReadReturned(t) /\ tloc[t].ret = "ESP_OK"
        /\ tloc[t].frame # <<>>
        /\ tloc[t].frame[1] = 255 /\ tloc[t].frame[2] = 255
        /\ tloc[t].data.point_num = 0 /\ tloc[t].data.gesture_id = 0

\* C26: esp_lcd_axs15260_get_dpi_panel returns NULL for a NULL panel and for
\* a panel without DPI panel, returns the stored DPI handle for a panel that
\* has one, and changes nothing, so that every call gives the same handle.
C26_GetDpiPanel ==
    op.name = "get_dpi_panel" =>
        /\ op.args[1] = NULL => ret = NULL
        /\ (op.args[1] # NULL /\ WasCommandOnly) => ret = NULL
        /\ (op.args[1] # NULL /\ WasStreaming) =>
             ret = pre.panel.dpi_panel /\ ret \in DpiHandles
        /\ panel = pre.panel
        /\ phase = pre.phase
        /\ ev = <<>>

\* the getter was called on a streaming panel and returned its DPI handle
C26_Witness ==
    /\ op.name = "get_dpi_panel"
    /\ op.args[1] # NULL
    /\ WasStreaming
    /\ ret = panel.dpi_panel /\ ret = "dpi_b"

\* C28: a call of axs15260_touch_read that reports point_num = n with
\* 1 <= n <= 5 has written all six fields of points[0] (x and y from the
\* transformed coordinates, event, id, weight and area from the frame) and
\* has left points[1..4] as the caller passed them; a call that reports
\* point_num = 0 has left every entry of points[] as the caller passed it.
C28_OnlyFirstPointWritten ==
    \A t \in Tasks :
        (ReadReturned(t) /\ tloc[t].frame # <<>> /\ tloc[t].ret = "ESP_OK") =>
            LET d == tloc[t].data
                f == tloc[t].frame
            IN  /\ d.point_num \in 1..5 =>
                     /\ d.points[1] = [x |-> tloc[t].x, y |-> tloc[t].y,
                                       event  |-> f[3] \div 64,
                                       id     |-> f[5] \div 16,
                                       weight |-> f[7],
                                       area   |-> f[8] \div 16]
                     /\ \A k \in DOMAIN StalePoint :
                          d.points[1][k] # StalePoint[k]
                     /\ \A i \in 2..5 : d.points[i] = StalePoint
                /\ d.point_num = 0 =>
                     \A i \in 1..5 : d.points[i] = StalePoint

\* a read has returned five points reported by the frame: only points[0] is
\* filled in
C28_Witness ==
    \E t \in Tasks :
        /\ ReadReturned(t) /\ tloc[t].ret = "ESP_OK"
        /\ tloc[t].data.point_num = 5
        /\ tloc[t].data.points[1].weight = 32
        /\ tloc[t].data.points[5] = StalePoint

\* task t is inside axs15260_touch_read between taking and giving the lock
InsideLock(t) ==
    tpc[t] \in {"fill", "bus", "recv", "fail", "validate", "swap",
                "mirror_x", "mirror_y", "give"}

\* C29: every call of axs15260_touch_read that obtained the lock has given it
\* exactly once when it returns, whichever way it returns (transport error,
\* rejected frame, normal report), and no longer holds it; the lock is only
\* ever held by a task still inside its read, so once the calls have
\* returned the lock is free for the next read.
C29_LockGivenOnce ==
    /\ \A t \in Tasks :
         LockedReadReturned(t) => tloc[t].ngive = 1 /\ tdev.lock # t
    /\ tdev.lock # "free" => (tdev.lock \in Tasks /\ InsideLock(tdev.lock))
    /\ (\A t \in Tasks : tpc[t] = "done") => tdev.lock = "free"

\* one task's read has returned on the transport-error path and the other's
\* on the rejected-frame path, and the lock is free
C29_Witness ==
    \E t \in Tasks, u \in Tasks :
        /\ LockedReadReturned(t) /\ tloc[t].txres = "ESP_FAIL"
        /\ LockedReadReturned(u) /\ tloc[u].txres = "ESP_OK"
        /\ tloc[u].frame[1] = 255 /\ tloc[u].data.point_num = 0
        /\ tdev.lock = "free"

-----------------------------------------------------------------------------
(* Caller-supplied init tables over the whole range of data_bytes *)

\* capacity of axs15260_lcd_init_cmd_t.data
InitCmdDataSize == 64

\* data_bytes is a uint8_t the driver never compares with the capacity of
\* data: entries below, at and above the capacity, up to the largest value
AnyInitCmdEntries ==
    { [cmd |-> 248, data |-> [i \in 1..InitCmdDataSize |-> 0],
       data_bytes |-> n, delay_ms |-> 0] : n \in {0, 2, 64, 65, 255} }

AnyInitCmdTables == UNION { [1..n -> AnyInitCmdEntries] : n \in 1..MaxLen }

\* lcd_init's configuration with a caller-supplied table
TableConfigs ==
    { [null |-> FALSE, reset_gpio_num |-> g, reset_active_high |-> 0,
       bits_per_pixel |-> 24, rgb_ele_order |-> "RGB",
       vendor_config |-> [null |-> FALSE, init_cmds |-> t,
                          init_cmds_size |-> Len(t),
                          use_mipi_interface |-> 1, mirror_by_cmd |-> 0,
                          dsi_bus |-> "dsi_bus", dpi_config |-> "dpi_cfg"]] :
        g \in ResetGpios, t \in AnyInitCmdTables }

NewFromTable ==
    /\ phase = "none"
    /\ \E cfg \in TableConfigs :
         \E env \in Envs("mipi_io", cfg, "&s_panel") :
            LET e == esp_lcd_new_panel_axs15260("mipi_io", cfg, "&s_panel", env)
            IN  Call("new", <<"mipi_io", cfg, "&s_panel">>, e,
                     IF e.ret = "ESP_OK" THEN "live" ELSE "failed",
                     IF e.out = "unwritten" THEN ret_panel ELSE e.out)

TableSpec == Init /\ [][NewFromTable]_vars

\* C25: every init command the constructor transmits from a caller-supplied
\* table carries at most 64 parameter bytes: the length passed to
\* esp_lcd_panel_io_tx_param never exceeds the capacity of the entry's data
\* array.
C25_ParamsFitDataArray ==
    (op.name = "new" /\ CallerSupplied) =>
        \A i \in 1..Len(ev) : IsTx(ev[i]) => ev[i].len <= InitCmdDataSize

-----------------------------------------------------------------------------
(* One task reading a controller that holds a touch, over a transport that  *)
(* may report success without having stored the frame                       *)

SentinelInit ==
    /\ PanelBoot
    /\ tdev \in {axs15260_touch_new(c) :
                   c \in TouchConfigs({21}, {<<0, 0>>}, TouchFlagSets)}
    /\ tpc = [t \in Tasks |-> IF t = "lvgl" THEN "done" ELSE "off"]
    /\ tloc = [t \in Tasks |-> Fresh("none", "dev")]
    /\ xfer = {}
    /\ wire \in Wires(FewFrames, {1})
    /\ isr = NoHandler

SentinelNext ==
    \/ ReadCall
    \/ ReadTake
    \/ ReadFill
    \/ ReadBusStart
    \/ ReadBusEnd
    \/ ReadBusEndShort
    \/ ReadFail
    \/ ReadValidate
    \/ ReadSwap
    \/ ReadMirrorX
    \/ ReadMirrorY
    \/ ReadGive

SentinelSpec == SentinelInit /\ [][SentinelNext]_vars

\* task t's read has returned after a bus read that reported success and
\* stored fewer than 2 bytes
ShortReadReturned(t) ==
    ReadReturned(t) /\ tloc[t].txres = "ESP_OK" /\ tloc[t].wrote < 2

\* C27: in every call of axs15260_touch_read all 8 bytes of handle->buf are
\* 0xFF when the bus read starts and until it returns, so that a bus read
\* that reports success without storing bytes 0 and 1 (nothing stored, or
\* only byte 0) gives the empty report, point_num = 0 and gesture_id = 0,
\* with no point decoded from what an earlier read left in the buffer.
C27_SentinelMakesShortReadEmpty ==
    \A t \in Tasks :
        /\ tpc[t] \in {"bus", "recv"} => tdev.buf = Sentinel
        /\ ShortReadReturned(t) =>
             /\ tloc[t].ret = "ESP_OK"
             /\ tloc[t].data.point_num = 0
             /\ tloc[t].data.gesture_id = 0
             /\ tloc[t].data.points = StaleReport.points

\* a bus read that stored only byte 0 of a frame reporting a touch has
\* returned: the report is empty
C27_Witness ==
    \E t \in Tasks :
        /\ ShortReadReturned(t) /\ tloc[t].wrote = 1
        /\ wire.frame = ExampleFrame
        /\ tloc[t].frame[1] = 0 /\ tloc[t].frame[2] = 255
        /\ tloc[t].data.point_num = 0

-----------------------------------------------------------------------------
(* axs15260_touch_register_cb and touch_isr *)

\* the (callback, user_data) pairs a caller registers
CallbackArgs == {<<"cb1", "ctx1">>, <<"cb2", "ctx2">>, <<NULL, "ctx1">>}

\* the handler installed for any callback, null included
ShouldInstall_AnyCallback(dev, callback) == dev.int_gpio >= 0

\* if (handle->int_gpio >= 0 && callback)
ShouldInstall(dev, callback) == dev.int_gpio >= 0 /\ callback # NULL

\* the call, its argument check and handle->callback = callback
RegisterCall ==
    \E t \in Tasks, h \in TouchHandles, a \in CallbackArgs :
        /\ tpc[t] = "done"
        /\ IF h = NULL
           THEN /\ SetLoc(t, [Fresh("register_cb", h) EXCEPT
                                !.ret = "ESP_ERR_INVALID_ARG",
                                !.cb = a[1], !.ctx = a[2]])
                /\ Goto(t, "done")
                /\ tdev' = tdev
           ELSE /\ SetLoc(t, [Fresh("register_cb", h) EXCEPT
                                !.cb = a[1], !.ctx = a[2]])
                /\ Goto(t, "store_user_data")
                /\ tdev' = [tdev EXCEPT !.callback = a[1]]
        /\ UNCHANGED <<xfer, wire, isr>>
        /\ UNCHANGED pvars

\* handle->user_data = user_data
RegisterUserData ==
    \E t \in Tasks :
        /\ tpc[t] = "store_user_data"
        /\ tdev' = [tdev EXCEPT !.user_data = tloc[t].ctx]
        /\ Goto(t, "isr_add")
        /\ UNCHANGED <<tloc, xfer, wire, isr>>
        /\ UNCHANGED pvars

\* gpio_isr_handler_add and gpio_intr_enable when there is a line and a
\* callback; return ESP_OK
RegisterIsr ==
    \E t \in Tasks :
        /\ tpc[t] = "isr_add"
        /\ IF ShouldInstall(tdev, tloc[t].cb)
           THEN /\ isr' = [isr EXCEPT !.handler = TRUE]
                /\ SetLoc(t, [tloc[t] EXCEPT !.ret = "ESP_OK", !.nadd = @ + 1])
           ELSE /\ isr' = isr
                /\ SetLoc(t, [tloc[t] EXCEPT !.ret = "ESP_OK"])
        /\ Goto(t, "done")
        /\ UNCHANGED <<tdev, xfer, wire>>
        /\ UNCHANGED pvars

\* a finger lands: the controller pulls INT low; the falling edge starts
\* touch_isr when its handler is added and it is not running
TouchEdge ==
    /\ wire.level = 1
    /\ wire' = [wire EXCEPT !.level = 0]
    /\ isr' = IF isr.handler /\ isr.pc = "idle"
              THEN [isr EXCEPT !.pc = "check"] ELSE isr
    /\ UNCHANGED <<tdev, tpc, tloc, xfer>>
    /\ UNCHANGED pvars

\* the controller releases INT
LineRelease ==
    /\ wire.level = 0
    /\ wire' = [wire EXCEPT !.level = 1]
    /\ UNCHANGED <<tdev, tpc, tloc, xfer, isr>>
    /\ UNCHANGED pvars

\* touch_isr: if (handle && handle->callback)
IsrCheck ==
    /\ isr.pc = "check"
    /\ isr' = IF tdev.callback = NULL
              THEN [isr EXCEPT !.pc = "idle", !.cb = NULL]
              ELSE [isr EXCEPT !.pc = "call", !.cb = tdev.callback]
    /\ UNCHANGED <<tdev, tpc, tloc, xfer, wire>>
    /\ UNCHANGED pvars

\* touch_isr: handle->callback(handle, handle->user_data); the pointer called
\* is the one tested, or handle->callback loaded again, as the build has it
IsrCall ==
    /\ isr.pc = "call"
    /\ \E callee \in {isr.cb, tdev.callback} :
         isr' = [isr EXCEPT !.pc = "idle",
                            !.last = <<callee, tdev.user_data>>]
    /\ UNCHANGED <<tdev, tpc, tloc, xfer, wire>>
    /\ UNCHANGED pvars

\* app_main registering callbacks while edges arrive on the INT line
CallbackInit ==
    /\ PanelBoot
    /\ tdev \in {axs15260_touch_new(c) :
                   c \in TouchConfigs({-1, 21}, {<<0, 0>>},
                                      {[swap_xy |-> FALSE, mirror_x |-> FALSE,
                                        mirror_y |-> FALSE]})}
    /\ tpc = [t \in Tasks |-> IF t = "app" THEN "done" ELSE "off"]
    /\ tloc = [t \in Tasks |-> Fresh("none", "dev")]
    /\ xfer = {}
    /\ wire \in Wires({ExampleFrame}, {1})
    /\ isr = NoHandler

CallbackNext ==
    \/ RegisterCall
    \/ RegisterUserData
    \/ RegisterIsr
    \/ TouchEdge
    \/ LineRelease
    \/ IsrCheck
    \/ IsrCall

CallbackSpec == CallbackInit /\ [][CallbackNext]_vars

\* task t's call of axs15260_touch_register_cb on the device has returned
RegisterReturned(t) ==
    tloc[t].op = "register_cb" /\ tpc[t] = "done" /\ tloc[t].handle # NULL

\* C22: axs15260_touch_register_cb(cb, ctx) returns ESP_OK with cb and ctx
\* stored as the device's one callback and user data; it adds and enables the
\* interrupt handler exactly when an interrupt line is configured and cb is
\* non-null, and with no line or a null cb makes no interrupt registration.
C22_RegisterCallback ==
    \A t \in Tasks :
        RegisterReturned(t) =>
            /\ tloc[t].ret = "ESP_OK"
            /\ tdev.callback = tloc[t].cb
            /\ tdev.user_data = tloc[t].ctx
            /\ tloc[t].nadd = (IF tdev.int_gpio >= 0 /\ tloc[t].cb # NULL
                               THEN 1 ELSE 0)
            /\ tloc[t].nadd = 1 => isr.handler
            /\ tdev.int_gpio < 0 => ~isr.handler

\* a null callback has been registered on a device with an interrupt line
\* whose handler an earlier registration had added: no registration was made
\* by this call
C22_Witness ==
    \E t \in Tasks :
        /\ RegisterReturned(t)
        /\ tloc[t].cb = NULL /\ tdev.int_gpio >= 0
        /\ tloc[t].nadd = 0
        /\ isr.handler /\ isr.last # <<>>

-----------------------------------------------------------------------------
(* Two tasks reading while touch_isr runs the registered callback, with the *)
(* scheduling the claim of termination rests on                             *)

\* after touch_init and a registration of cb1: the handler is added
LiveInit ==
    /\ PanelBoot
    /\ tdev = [axs15260_touch_new(
                 [rst_gpio |-> 6, int_gpio |-> 21, x_max |-> 0, y_max |-> 0,
                  flags |-> [swap_xy |-> FALSE, mirror_x |-> FALSE,
                             mirror_y |-> FALSE]])
               EXCEPT !.callback = "cb1", !.user_data = "ctx1"]
    /\ tpc = [t \in Tasks |-> "done"]
    /\ tloc = [t \in Tasks |-> Fresh("none", "dev")]
    /\ xfer = {}
    /\ wire \in Wires({ExampleFrame}, {1})
    /\ isr = [NoHandler EXCEPT !.handler = TRUE]

LiveNext ==
    \/ ReadCall
    \/ ReadTake
    \/ ReadTimeout
    \/ ReadFill
    \/ ReadBusStart
    \/ ReadBusEnd
    \/ ReadFail
    \/ ReadValidate
    \/ ReadSwap
    \/ ReadMirrorX
    \/ ReadMirrorY
    \/ ReadGive
    \/ TouchEdge
    \/ LineRelease
    \/ IsrCheck
    \/ IsrCall

\* a step of task t inside axs15260_touch_read
ReadStep(t) ==
    /\ \/ ReadTake
       \/ ReadTimeout
       \/ ReadFill
       \/ ReadBusStart
       \/ ReadBusEnd
       \/ ReadFail
       \/ ReadValidate
       \/ ReadSwap
       \/ ReadMirrorX
       \/ ReadMirrorY
       \/ ReadGive
    /\ tpc'[t] # tpc[t]

\* a task inside the driver is scheduled again, a wait on the mutex ends
\* after its 100 ms at the latest, and a bus transaction returns
LiveSpec ==
    /\ LiveInit
    /\ [][LiveNext]_vars
    /\ \A t \in Tasks : WF_vars(ReadStep(t))

\* task t is inside a call of axs15260_touch_read
Reading(t) == tloc[t].op = "read" /\ tpc[t] # "done"

\* C30: every call of axs15260_touch_read returns, under any interleaving
\* with the other reader and with the interrupt callback, provided each bus
\* transaction returns: with ESP_OK and a report, with the transport's
\* error, or with ESP_ERR_TIMEOUT when the wait for the lock expires; and
\* the lock is never held by a task that is not inside its read.
C30_ReadReturns ==
    /\ \A t \in Tasks : Reading(t) ~> ReadReturned(t)
    /\ [](\A t \in Tasks :
            (ReadReturned(t) /\ tloc[t].handle # NULL) =>
                tloc[t].ret \in {"ESP_OK", "ESP_ERR_TIMEOUT", "ESP_FAIL"})
    /\ [](tdev.lock # "free" => (tdev.lock \in Tasks /\ Reading(tdev.lock)))

\* one reader has returned ESP_ERR_TIMEOUT while the other holds the lock
\* with its bus transaction in progress and touch_isr is about to call the
\* callback
C30_Witness ==
    \E t \in Tasks, u \in Tasks :
        /\ LockTimedOut(t) /\ tloc[t].ret = "ESP_ERR_TIMEOUT"
        /\ tdev.lock = u /\ tpc[u] = "recv"
        /\ isr.pc = "call"

-----------------------------------------------------------------------------
(* Panel handlers: reset branches, holds, init table timing, the           *)
(* command-only panel, argument checks                                     *)

\* C32: reset takes exactly one branch.  With a reset line it writes the line
\* (three gpio_set_level calls) and transmits nothing; without one it transmits
\* LCD_CMD_SWRESET once, without parameters, and writes no line.  In both the
\* 170 ms wait is the last call and directly follows the last reset action,
\* and reset returns ESP_OK whatever the transmission returned, having
\* transmitted once.
C32_ResetBranches ==
    op.name = "reset" =>
        /\ ret = "ESP_OK"
        /\ Len(ev) >= 2
        /\ ev[Len(ev)] = Delay(170)
        /\ \A i \in 1..(Len(ev) - 1) : ev[i] # Delay(170)
        /\ IF pre.panel.reset_gpio_num >= 0
           THEN /\ At("tx") = {}
                /\ Cardinality(At("gpio_set_level")) = 3
                /\ \A i \in At("gpio_set_level") : ev[i].gpio = pre.panel.reset_gpio_num
                /\ IsGpioSet(ev[Len(ev) - 1])
           ELSE /\ At("gpio_set_level") = {}
                /\ At("tx") = {1}
                /\ Len(ev) = 2
                /\ ev[1].cmd = LCD_CMD_SWRESET
                /\ ev[1].len = 0

\* a panel without a reset line was reset and the transmission failed
C32_Witness ==
    /\ op.name = "reset"
    /\ pre.panel.reset_gpio_num < 0
    /\ ev[1].k = "tx"
    /\ ev[1].res = "ESP_FAIL"
    /\ ret = "ESP_OK"

-----------------------------------------------------------------------------
\* C33: after a transmission that succeeded, sleep(true) waits 5 ms and
\* sleep(false) 120 ms, as its last call before returning ESP_OK; after a
\* transmission that failed it returns that error and waits not at all.
C33_SleepHold ==
    op.name = "sleep" =>
        /\ ev[1].k = "tx"
        /\ IF ev[1].res = "ESP_OK"
           THEN /\ ret = "ESP_OK"
                /\ Len(ev) = 2
                /\ ev[2] = Delay(IF op.args[1] THEN 5 ELSE 120)
           ELSE /\ ret = ev[1].res
                /\ At("delay") = {}
                /\ Len(ev) = 1

\* sleep(true) succeeded and held 5 ms
C33_Witness ==
    /\ op.name = "sleep"
    /\ op.args = <<TRUE>>
    /\ ret = "ESP_OK"
    /\ ev[2] = Delay(5)

-----------------------------------------------------------------------------
\* the calls the constructor made before it called esp_lcd_new_panel_dpi
BeforeDpi ==
    SubSeq(ev, 1, (CHOOSE i \in DpiNewAt : \A j \in DpiNewAt : i <= j) - 1)

\* the hold the caller's k-th table entry asks for
HoldOf(k) == op.args[2].vendor_config.init_cmds[k].delay_ms

\* C34: with a caller-supplied table, the k-th transmission is the k-th entry
\* (command, parameters, data_bytes) and is directly followed by a wait of the
\* entry's delay_ms when that is positive and by the next transmission (or the
\* end of the table) when it is 0; no other wait is made.  With the built-in
\* sequence, LCD_CMD_SLPOUT is directly followed by a 120 ms wait and
\* LCD_CMD_DISPON by a 50 ms wait.  All of it precedes esp_lcd_new_panel_dpi.
C34_TableHolds ==
    (NewCommitted /\ DpiNewAt # {}) =>
        LET b == BeforeDpi
            Nth(i) == Cardinality({j \in 1..i : IsTx(b[j])})
        IN  IF CallerSupplied
            THEN /\ Cardinality({i \in 1..Len(b) : IsTx(b[i])}) = Len(CallerTable)
                 /\ \A i \in 1..Len(b) :
                      IsTx(b[i]) =>
                         /\ <<b[i].cmd, b[i].data, b[i].len>> = CallerTable[Nth(i)]
                         /\ IF HoldOf(Nth(i)) > 0
                            THEN i < Len(b) /\ b[i + 1] = Delay(HoldOf(Nth(i)))
                            ELSE i = Len(b) \/ IsTx(b[i + 1])
                 /\ \A i \in 1..Len(b) :
                      b[i].k = "delay" => (i > 1 /\ IsTx(b[i - 1]))
            ELSE /\ \E i \in 1..Len(b) : IsTx(b[i]) /\ b[i].cmd = LCD_CMD_SLPOUT
                 /\ \E i \in 1..Len(b) : IsTx(b[i]) /\ b[i].cmd = LCD_CMD_DISPON
                 /\ \A i \in 1..Len(b) :
                      (IsTx(b[i]) /\ b[i].cmd = LCD_CMD_SLPOUT) =>
                         (i < Len(b) /\ b[i + 1] = Delay(120))
                 /\ \A i \in 1..Len(b) :
                      (IsTx(b[i]) /\ b[i].cmd = LCD_CMD_DISPON) =>
                         (i < Len(b) /\ b[i + 1] = Delay(50))

\* a caller table with an entry that holds and an entry that does not was sent
C34_Witness ==
    /\ NewCommitted
    /\ DpiNewAt # {}
    /\ CallerSupplied
    /\ Len(CallerTable) = 2
    /\ HoldOf(1) = 0
    /\ HoldOf(2) = 120
    /\ Len(BeforeDpi) = 4
    /\ BeforeDpi[4] = Delay(120)

-----------------------------------------------------------------------------
\* the last call was the constructor, with arguments it accepted and a context
\* it could allocate
NewEntered ==
    /\ op.name = "new"
    /\ Len(ev) > 0
    /\ ev[1] = Calloc(TRUE)

\* the constructor was given no vendor configuration, or one that does not
\* ask for the MIPI interface
NotMipi ==
    LET v == op.args[2].vendor_config
    IN  v.null \/ v.use_mipi_interface = 0

\* C35: a constructor that got its context and was not asked for the MIPI
\* interface transmits nothing, does not call esp_lcd_new_panel_dpi and
\* returns ESP_OK with a panel whose dpi_panel is NULL; no later call gives
\* such a panel a dpi_panel, and on it draw_bitmap returns ESP_OK, set_gap
\* ESP_ERR_NOT_SUPPORTED and init ESP_OK, none of them calling anything.
C35_CommandOnlyPanel ==
    /\ (NewEntered /\ NotMipi) =>
          /\ ret = "ESP_OK"
          /\ At("tx") = {}
          /\ DpiNewAt = {}
          /\ phase = "live"
          /\ ret_panel = "base"
          /\ panel.dpi_panel = NULL
    /\ (WasCommandOnly /\ phase = "live") => panel.dpi_panel = NULL
    /\ (WasCommandOnly /\ op.name = "draw_bitmap") => (ret = "ESP_OK" /\ ev = <<>>)
    /\ (WasCommandOnly /\ op.name = "set_gap") =>
          (ret = "ESP_ERR_NOT_SUPPORTED" /\ ev = <<>>)
    /\ (WasCommandOnly /\ op.name = "init") => (ret = "ESP_OK" /\ ev = <<>>)

\* a panel made with a vendor configuration that has a bus, a DPI
\* configuration and a table but does not ask for MIPI
C35_Witness ==
    /\ NewEntered
    /\ NotMipi
    /\ ~op.args[2].vendor_config.null
    /\ op.args[2].vendor_config.dsi_bus # NULL
    /\ op.args[2].vendor_config.dpi_config # NULL
    /\ op.args[2].vendor_config.init_cmds_size > 0
    /\ phase = "live"

-----------------------------------------------------------------------------
\* the constructor was asked for the MIPI interface without a bus handle or
\* without a DPI configuration
MipiIncomplete ==
    LET v == op.args[2].vendor_config
    IN  /\ ~v.null
        /\ v.use_mipi_interface = 1
        /\ (v.dsi_bus = NULL \/ v.dpi_config = NULL)

\* the constructor was called with a NULL io, configuration or out-pointer
NullArgument ==
    /\ op.name = "new"
    /\ (op.args[1] = NULL \/ op.args[2].null \/ op.args[3] = NULL)

\* C36: a constructor given a NULL io, configuration or out-pointer returns
\* ESP_ERR_INVALID_ARG having called nothing (no calloc, no transmission); one
\* that got its context and was asked for MIPI without a bus handle or without
\* a DPI configuration returns ESP_ERR_INVALID_ARG having transmitted nothing
\* and not called esp_lcd_new_panel_dpi.  Neither hands out a panel.
C36_InvalidArgument ==
    /\ NullArgument =>
          /\ ret = "ESP_ERR_INVALID_ARG"
          /\ ev = <<>>
          /\ phase = "failed"
          /\ ret_panel = pre.ret_panel
    /\ (NewEntered /\ MipiIncomplete) =>
          /\ ret = "ESP_ERR_INVALID_ARG"
          /\ At("tx") = {}
          /\ DpiNewAt = {}
          /\ phase = "failed"
          /\ ret_panel = pre.ret_panel

\* MIPI was asked for with a table and a DPI configuration but no bus handle
C36_Witness ==
    /\ NewEntered
    /\ MipiIncomplete
    /\ op.args[2].vendor_config.dsi_bus = NULL
    /\ op.args[2].vendor_config.dpi_config # NULL
    /\ op.args[2].vendor_config.init_cmds_size > 0
    /\ ret = "ESP_ERR_INVALID_ARG"

-----------------------------------------------------------------------------
\* touch_isr has called a callback
IsrCalled == isr.last # <<>>

\* the (callback, user_data) pairs that were registered together
RegisteredPairs == {a \in CallbackArgs : a[1] # NULL}

\* C37: every call touch_isr makes of a callback passes the user data that
\* was registered in the same axs15260_touch_register_cb call as that
\* callback: never cb2 with ctx1, never cb1 with ctx2.
C37_CallbackGetsItsContext ==
    (IsrCalled /\ isr.last[1] # NULL) => isr.last \in RegisteredPairs

-----------------------------------------------------------------------------
\* C38: touch_isr never calls a null pointer: the pointer it calls is the
\* non-null handle->callback it tested, also when
\* axs15260_touch_register_cb(NULL, ctx) runs between the test and the call.
C38_NeverCallsNull ==
    IsrCalled => (isr.last[1] # NULL /\ isr.last[1] = isr.cb)

-----------------------------------------------------------------------------
(* Reads of touches inside the panel under every coordinate transform *)

\* one frame header that passes the validity check, one point
InsideFrames ==
    {<<0, 1, x[1], x[2], y[1], y[2], 32, 144>> :
        x \in {<<0, 0>>, <<0, 100>>, <<1, 195>>},
        y \in {<<0, 0>>, <<0, 120>>, <<2, 88>>, <<4, 255>>}}

\* one task reading, the controller reporting a touch at x in {0, 100, 451}
\* and y in {0, 120, 600, 1279}, on the default and on a 480 x 800 panel
MirrorInit ==
    /\ PanelBoot
    /\ tdev \in {axs15260_touch_new(c) :
                   c \in TouchConfigs({21}, {<<0, 0>>, <<480, 800>>}, TouchFlagSets)}
    /\ tpc = [t \in Tasks |-> IF t = "lvgl" THEN "done" ELSE "off"]
    /\ tloc = [t \in Tasks |-> Fresh("none", "dev")]
    /\ xfer = {}
    /\ wire \in Wires(InsideFrames, {1})
    /\ isr = NoHandler

MirrorSpec == MirrorInit /\ [][DecodeNext]_vars

\* the frame's raw point lies inside the configured resolution
RawInside(f) == RawX(f) < tdev.x_max /\ RawY(f) < tdev.y_max

\* C39: for every accepted frame whose raw point lies inside the configured
\* resolution, under every combination of swap_xy, mirror_x and mirror_y, a
\* mirrored x is at most x_max - 1 and a mirrored y at most y_max - 1: the
\* subtractions x_max - 1 - x and y_max - 1 - y do not wrap in 16 bits.
C39_MirrorStaysInside ==
    \A t \in Tasks :
        (ReadReturned(t) /\ tloc[t].frame # <<>> /\ Accepted(tloc[t].frame)
           /\ RawInside(tloc[t].frame)) =>
            LET p == tloc[t].data.points[1]
            IN  /\ tdev.flags.mirror_x => p.x <= tdev.x_max - 1
                /\ tdev.flags.mirror_y => p.y <= tdev.y_max - 1

-----------------------------------------------------------------------------
(* axs15260_touch_set_swap_xy, called by one task while another reads *)

AllOff == [swap_xy |-> FALSE, mirror_x |-> FALSE, mirror_y |-> FALSE]
AllOn == [swap_xy |-> TRUE, mirror_x |-> TRUE, mirror_y |-> TRUE]

\* the flag triples the application ever installs, at construction or later
InstalledFlags == {AllOff, AllOn}

\* the call, its argument check and handle->flags.swap_xy = swap_xy; a build
\* that merges the three bit-field stores into one store of the flags byte
\* writes all three here
SetSwapCall ==
    \E t \in Tasks, h \in TouchHandles, f \in InstalledFlags :
        /\ tpc[t] = "done"
        /\ IF h = NULL
           THEN /\ SetLoc(t, [Fresh("set_swap_xy", h) EXCEPT
                                !.ret = "ESP_ERR_INVALID_ARG"] @@ [flags |-> f])
                /\ Goto(t, "done")
                /\ tdev' = tdev
           ELSE \/ /\ SetLoc(t, Fresh("set_swap_xy", h) @@ [flags |-> f])
                   /\ Goto(t, "set_mirror_x")
                   /\ tdev' = [tdev EXCEPT !.flags.swap_xy = f.swap_xy]
                \/ /\ SetLoc(t, [Fresh("set_swap_xy", h) EXCEPT !.ret = "ESP_OK"]
                                @@ [flags |-> f])
                   /\ Goto(t, "done")
                   /\ tdev' = [tdev EXCEPT !.flags.swap_xy = f.swap_xy,
                                           !.flags.mirror_x = f.mirror_x,
                                           !.flags.mirror_y = f.mirror_y]
        /\ UNCHANGED <<xfer, wire>>
        /\ UNCHANGED <<pvars, isr>>

\* handle->flags.mirror_x = mirror_x
SetMirrorX ==
    \E t \in Tasks :
        /\ tpc[t] = "set_mirror_x"
        /\ tdev' = [tdev EXCEPT !.flags.mirror_x = tloc[t].flags.mirror_x]
        /\ Goto(t, "set_mirror_y")
        /\ UNCHANGED <<tloc, xfer, wire>>
        /\ UNCHANGED <<pvars, isr>>

\* handle->flags.mirror_y = mirror_y; return ESP_OK
SetMirrorY ==
    \E t \in Tasks :
        /\ tpc[t] = "set_mirror_y"
        /\ tdev' = [tdev EXCEPT !.flags.mirror_y = tloc[t].flags.mirror_y]
        /\ SetLoc(t, [tloc[t] EXCEPT !.ret = "ESP_OK"])
        /\ Goto(t, "done")
        /\ UNCHANGED <<xfer, wire>>
        /\ UNCHANGED <<pvars, isr>>

\* a touch at raw (100, 120): each of the eight flag triples maps it to a
\* different point
DistinctFrame == <<0, 1, 0, 100, 0, 120, 32, 144>>

\* after touch_init with one of the installed triples; each task reads or
\* changes the transform
FlagsInit ==
    /\ PanelBoot
    /\ tdev \in {axs15260_touch_new(c) :
                   c \in TouchConfigs({21}, {<<0, 0>>}, InstalledFlags)}
    /\ tpc = [t \in Tasks |-> "done"]
    /\ tloc = [t \in Tasks |-> Fresh("none", "dev")]
    /\ xfer = {}
    /\ wire \in Wires({DistinctFrame}, {1})
    /\ isr = NoHandler

FlagsNext ==
    \/ ReadCall
    \/ ReadTake
    \/ ReadTimeout
    \/ ReadFill
    \/ ReadBusStart
    \/ ReadBusEnd
    \/ ReadFail
    \/ ReadValidate
    \/ ReadSwap
    \/ ReadMirrorX
    \/ ReadMirrorY
    \/ ReadGive
    \/ SetSwapCall
    \/ SetMirrorX
    \/ SetMirrorY

FlagsSpec == FlagsInit /\ [][FlagsNext]_vars

\* the point the transform makes of frame f under the flag triple g
TransformedBy(f, g) ==
    LET sx == IF g.swap_xy THEN RawY(f) ELSE RawX(f)
        sy == IF g.swap_xy THEN RawX(f) ELSE RawY(f)
    IN  <<IF g.mirror_x THEN (tdev.x_max - 1 - sx) % UINT16 ELSE sx,
          IF g.mirror_y THEN (tdev.y_max - 1 - sy) % UINT16 ELSE sy>>

\* C40: the point of a read that returns a touch is the raw point transformed
\* by one complete flag triple that was installed (the one before or the one
\* after a concurrent axs15260_touch_set_swap_xy), never by a mixture of the
\* two.
C40_FlagsReadWhole ==
    \A t \in Tasks :
        (ReadReturned(t) /\ tloc[t].frame # <<>> /\ Accepted(tloc[t].frame)) =>
            <<tloc[t].data.points[1].x, tloc[t].data.points[1].y>> \in
                {TransformedBy(tloc[t].frame, g) : g \in InstalledFlags}

-----------------------------------------------------------------------------
(* axs15260_touch_del, with edges arriving on the INT line meanwhile *)

IsrHandlerRemove(num) == [k |-> "gpio_isr_handler_remove", gpio |-> num]
I2cRmDevice == [k |-> "i2c_master_bus_rm_device"]
I2cDelBus == [k |-> "i2c_del_master_bus"]
SemaphoreDelete == [k |-> "vSemaphoreDelete"]

\* variant: the handler is removed only when the bus and the lock are gone
axs15260_touch_del_RemoveLate(dev) ==
    (IF dev.rst_gpio >= 0 THEN << GpioResetPin(dev.rst_gpio) >> ELSE <<>>)
    \o << I2cRmDevice, I2cDelBus, SemaphoreDelete >>
    \o (IF dev.int_gpio >= 0
        THEN << IsrHandlerRemove(dev.int_gpio), GpioResetPin(dev.int_gpio) >>
        ELSE <<>>)
    \o << Free >>

\* the calls axs15260_touch_del makes on a constructed device, in order
axs15260_touch_del(dev) ==
    (IF dev.int_gpio >= 0
     THEN << IsrHandlerRemove(dev.int_gpio), GpioResetPin(dev.int_gpio) >>
     ELSE <<>>)
    \o (IF dev.rst_gpio >= 0 THEN << GpioResetPin(dev.rst_gpio) >> ELSE <<>>)
    \o << I2cRmDevice, I2cDelBus, SemaphoreDelete, Free >>

\* the call and its argument check; todo are the calls still to make, calls
\* the ones made
DelCall ==
    \E t \in Tasks, h \in TouchHandles :
        /\ tpc[t] = "done"
        /\ tdev # NoPanel
        /\ IF h = NULL
           THEN /\ SetLoc(t, [Fresh("del", h) EXCEPT !.ret = "ESP_ERR_INVALID_ARG"]
                             @@ [todo |-> <<>>, calls |-> <<>>,
                                 int_gpio |-> tdev.int_gpio])
                /\ Goto(t, "done")
           ELSE /\ SetLoc(t, Fresh("del", h)
                             @@ [todo |-> axs15260_touch_del(tdev), calls |-> <<>>,
                                 int_gpio |-> tdev.int_gpio])
                /\ Goto(t, "del_step")
        /\ UNCHANGED <<tdev, xfer, wire>>
        /\ UNCHANGED <<pvars, isr>>

\* the next call of axs15260_touch_del: gpio_isr_handler_remove takes the
\* handler off the line, free ends the device structure; return ESP_OK after
\* the last one
DelStep ==
    \E t \in Tasks :
        /\ tpc[t] = "del_step"
        /\ LET c == Head(tloc[t].todo)
               rest == Tail(tloc[t].todo)
           IN  /\ isr' = IF c.k = "gpio_isr_handler_remove"
                         THEN [isr EXCEPT !.handler = FALSE] ELSE isr
               /\ tdev' = IF c.k = "free" THEN NoPanel ELSE tdev
               /\ SetLoc(t, [tloc[t] EXCEPT
                               !.todo = rest,
                               !.calls = Append(@, c),
                               !.ret = IF rest = <<>> THEN "ESP_OK" ELSE @])
               /\ Goto(t, IF rest = <<>> THEN "done" ELSE "del_step")
        /\ UNCHANGED <<xfer, wire>>
        /\ UNCHANGED pvars

\* touch_isr on a device that still exists
DelIsrCheck == tdev # NoPanel /\ IsrCheck

DelIsrCall == tdev # NoPanel /\ IsrCall

\* touch_isr, started by an edge before the removal, reading the freed
\* structure: it finds a null callback, or calls whatever the memory holds
IsrDangling ==
    /\ tdev = NoPanel
    /\ isr.pc # "idle"
    /\ \/ isr' = [isr EXCEPT !.pc = "idle"]
       \/ \E callee \in {isr.cb, "garbage"} \ {NULL}, ctx \in {"ctx1", "garbage"} :
             isr' = [isr EXCEPT !.pc = "idle", !.last = <<callee, ctx>>]
    /\ UNCHANGED <<tdev, tpc, tloc, xfer, wire>>
    /\ UNCHANGED pvars

\* after touch_init and, with an interrupt line, a registration of cb1; the
\* application task is about to shut the touch driver down
DelInit ==
    /\ PanelBoot
    /\ \E g \in {-1, 21}, r \in {-1, 6} :
         /\ tdev = [axs15260_touch_new(
                      [rst_gpio |-> r, int_gpio |-> g, x_max |-> 0, y_max |-> 0,
                       flags |-> AllOff])
                    EXCEPT !.callback = "cb1", !.user_data = "ctx1"]
         /\ isr = [NoHandler EXCEPT !.handler = (g >= 0)]
    /\ tpc = [t \in Tasks |-> IF t = "app" THEN "done" ELSE "off"]
    /\ tloc = [t \in Tasks |-> Fresh("none", "dev")]
    /\ xfer = {}
    /\ wire \in Wires({ExampleFrame}, {0, 1})

DelNext ==
    \/ DelCall
    \/ DelStep
    \/ TouchEdge
    \/ LineRelease
    \/ DelIsrCheck
    \/ DelIsrCall
    \/ IsrDangling

DelSpec == DelInit /\ [][DelNext]_vars

\* task t is inside axs15260_touch_del or has returned from it
Deleting(t) == tloc[t].op = "del" /\ tloc[t].handle # NULL

\* positions in the calls task t's axs15260_touch_del has made of the calls
\* of kind k
DelAt(t, k) == {i \in 1..Len(tloc[t].calls) : tloc[t].calls[i].k = k}

\* task t's axs15260_touch_del has removed the interrupt handler
HandlerRemoved(t) == Deleting(t) /\ DelAt(t, "gpio_isr_handler_remove") # {}

\* C31: axs15260_touch_del calls gpio_isr_handler_remove, exactly when an
\* interrupt line is configured and then once, before it removes the bus
\* device, deletes the bus, deletes the lock and frees the structure, which
\* it does last; and once the handler is removed, no edge on the INT line
\* starts touch_isr, so no callback is invoked for it.
C31_HandlerRemovedFirst ==
    /\ [](\A t \in Tasks :
            Deleting(t) =>
               /\ \A i \in DelAt(t, "gpio_isr_handler_remove") :
                    \A k \in {"i2c_master_bus_rm_device", "i2c_del_master_bus",
                              "vSemaphoreDelete", "free"} :
                       \A j \in DelAt(t, k) : i < j
               /\ tloc[t].int_gpio < 0 => DelAt(t, "gpio_isr_handler_remove") = {}
               /\ tpc[t] = "done" =>
                    /\ Cardinality(DelAt(t, "gpio_isr_handler_remove")) =
                          (IF tloc[t].int_gpio >= 0 THEN 1 ELSE 0)
                    /\ DelAt(t, "free") = {Len(tloc[t].calls)}
                    /\ \A k \in {"i2c_master_bus_rm_device", "i2c_del_master_bus",
                                 "vSemaphoreDelete"} :
                          Cardinality(DelAt(t, k)) = 1
               /\ HandlerRemoved(t) => ~isr.handler)
    /\ [][(\E t \in Tasks : HandlerRemoved(t)) /\ isr.pc = "idle"
             => isr'.pc = "idle" /\ isr'.last = isr.last]_vars

\* a device with an interrupt line and a reset line has been deleted, all
\* seven calls made; the INT line is low, touch_isr is idle and has called
\* nothing
C31_Witness ==
    \E t \in Tasks :
        /\ HandlerRemoved(t)
        /\ tpc[t] = "done" /\ tloc[t].ret = "ESP_OK"
        /\ Len(tloc[t].calls) = 7
        /\ wire.level = 0
        /\ isr.pc = "idle"
        /\ isr.last = <<>>

====
